---- MODULE Spec2Model ----
(***************************************************************************)
(* Job scheduling and execution pipeline of ytdlp-api.                     *)
(*                                                                         *)
(*   services/job_manager.py       JobQueue (in-memory priority queue)     *)
(*   services/queue_worker.py      OptimizedQueueWorker                    *)
(*   services/download_service.py  DownloadService.download / cancel_task  *)
(*   app/endpoints.py              create_download / cancel_task / delete  *)
(*   infrastructure/redis_manager  active_downloads set                    *)
(*   services/conversion_queue.py  ConversionQueueManager (sorted sets)    *)
(*   services/conversion_worker.py ConversionWorker                        *)
(*                                                                         *)
(* Specifications:                                                         *)
(*   SpecJQ   the JobQueue object driven through its public methods        *)
(*   Spec     the download pipeline (queue worker, download, cancel)       *)
(*   SpecAll  the download pipeline together with the conversion worker    *)
(***************************************************************************)
EXTENDS Integers, Sequences, FiniteSets, TLC

\* ---------------------------------------------------------------- bounds
\* number of download tasks / jobs that may be created
NumTasks == 2
\* largest max_retries value handed to JobQueue.enqueue in SpecJQ
MaxRetriesArg == 1
\* number of environment faults (a failing Redis command, a failing database
\* query, a failing process spawn) injected into one run of Spec
MaxFaults == 1
\* settings.MAX_CONCURRENT_DOWNLOADS, a deployment setting (default 3, at least 1);
\* the model runs with a smaller cap so that the cap is reached with few tasks
MAX_CONCURRENT_DOWNLOADS == 1

\* number of conversion tasks that may be created
NumConv == 1
\* max_retries carried by a conversion request
ConvMaxRetries == 1
\* number of task ids handed to the conversion queue when it is driven alone
NumQueueIds == 3

\* settings.RATE_LIMIT_PER_MINUTE, a deployment setting (at least 1); the model
\* runs with a small limit so that the limit is reached with few requests
RATE_LIMIT_PER_MINUTE == 2

\* ------------------------------------------------------------- constants
\* JobPriority enum values
LOWEST == 0
CRITICAL == 4
NORMAL == 2
\* max_retries passed by DownloadService.create_task
MAX_RETRIES == 3
\* ConversionWorker.max_concurrent_conversions
MAX_CONCURRENT_CONVERSIONS == 2
\* priority taken off per earlier retry in ConversionQueueManager.mark_failed
RETRY_PENALTY == 10

Tasks == 1..NumTasks
Jobs == Tasks
Priorities == LOWEST..CRITICAL
NoJob == 0

\* conversion task ids: the same id space (uuid4) as the download task ids
ConvTasks == (NumTasks + 1)..(NumTasks + NumConv)
\* priority values a conversion request may carry
ConvPriorities == {0, 1}
\* the task ids handed to the conversion queue when it is driven alone
QueueIds == 1..NumQueueIds

\* percent values the extractor may print on a progress line
ProgressTicks == {50, 100}
\* st_size values of the file found after the download (0 = empty file)
FileSizes == {0, 1}
NoPath == "null"
NoSize == -1

\* the requests one client sends: one more than the limit
Requests == 1..(RATE_LIMIT_PER_MINUTE + 1)
\* the implementations of check_rate_limit:
\*   "auth"    core/auth/security.py (INCR, then EXPIRE on the first count)
\*   "core"    core/security.py around RedisManager.check_rate_limit (GET, then SETEX or INCR)
\*   "legacy"  rate_limiter.py around RedisManager.check_rate_limit
RLImpls == {"auth", "core", "legacy"}

\* the number of entries _record_event keeps (progress_tracker.py line 352)
EVENT_LIMIT == 100
\* bound: the number of events recorded for one task
MaxEvents == 102

\* failure_threshold of a circuit breaker (circuit_breaker.py line 25)
FAILURE_THRESHOLD == 5
\* bound: the number of calls made through one circuit breaker
MaxCalls == 7

\* bounds: the coroutines recording events of one task at the same time, and
\* the number of events they build
NumRecorders == 2
MaxStamps == 4

\* bounds: the progress values the subprocess reports (in percent, some out of
\* range), and the number of ticks
ProgressInputs == {0 - 5, 0, 5, 10, 100, 120}
MaxTicks == 12

\* the retry policies (database_resilience.py lines 27-30, redis_resilience.py
\* lines 15-18); delays in tenths of a second
POLICY_MAX_RETRIES == 3
INITIAL_DELAY == 5
BACKOFF_FACTOR == 2
DB_MAX_DELAY == 50
REDIS_MAX_DELAY == 100

\* bounds: max_items of the fallback cache, its keys, the ttl values passed to
\* set, and how far the clock runs
FallbackMaxItems == 2
CacheKeys == {"k1", "k2", "k3"}
CacheTTLs == {1, 2}
MaxNow == 3

\* max_consecutive_errors of a supervised worker (worker_supervisor.py line 92)
MAX_CONSECUTIVE_ERRORS == 5
\* bound: the number of calls of restart_worker
MaxRestarts == 2

\* number of conversion tasks when the cancel endpoint runs beside the worker
NumCancelConv == 2
\* their task ids
CancelConvTasks == (NumTasks + 1)..(NumTasks + NumCancelConv)

\* QueueDeadlockPrevention.lock_timeout_seconds
LOCK_TIMEOUT_SECONDS == 60
\* number of callers that use the lock of one resource
NumCallers == 3
\* seconds that pass in one step of the clock, and the last instant modelled
TickSeconds == 30
MaxLockNow == 120
\* the callers of acquire_lock and release_lock
Callers == 1..NumCallers

\* bounds: the characters of a file or directory name, the length of a name
\* and the depth of a directory
Chars == {"a", "b"}
MaxNameLen == 2
MaxDepth == 2

VARIABLES
    priority_queues,   \* JobQueue.priority_queues: priority -> FIFO of queue items
    active_jobs,       \* JobQueue.active_jobs (job ids)
    completed_jobs,    \* JobQueue.completed_jobs
    failed_jobs,       \* JobQueue.failed_jobs
    job,               \* the Job objects: job id -> fields
    exec_count,        \* job id -> number of times the job was handed out by dequeue
    download_tasks,    \* table download_tasks: task id -> row, or NoRow
    active_downloads,  \* Redis set "active_downloads"
    active_processes,  \* DownloadService.active_processes (task ids)
    proc,              \* task id -> state of its extractor child process
    pc,                \* task id -> position of its _execute_download coroutine
    cleanup,           \* task id -> _execute_download coroutines waiting in their finally block
    pq_job,            \* process_queue: the job dequeued in the current iteration, or NoJob
    cancel_pc,         \* task id -> position of a cancel_task request
    download_dir,      \* task id -> what DOWNLOAD_DIR holds under the name <task id>.*
    faults_left,       \* environment faults that may still be injected
    conversion_tasks,  \* table conversion_tasks: task id -> status ("none": no row)
    conv_queue,        \* Redis sorted set "conversion:queue"
    conv_active,       \* Redis sorted set "conversion:active"
    conv_failed,       \* Redis sorted set "conversion:failed"
    conv_completed,    \* Redis sorted set "conversion:completed"
    conv_enq,          \* the task ids in conversion:queue, in the order they were added
    conv_pc,           \* task id -> position of its _execute_conversion coroutine
    conv_job,          \* task id -> the queue entry handed to _execute_conversion
    rl_impl,           \* which check_rate_limit serves the requests
    rl_count,          \* Redis key rate_limit:<ip>: its integer value, 0 when the key is absent
    rl_ttl,            \* whether the key rate_limit:<ip> has an expiry
    rl_rolled,         \* whether the key has expired since the first request
    rl_pc,             \* request -> position of its check_rate_limit call
    rl_seen,           \* request -> the counter value its call read
    rl_fault,          \* request -> whether a Redis command of its call failed
    rl_result,         \* request -> outcome of its call
    ev_ring,           \* Redis key events:<task id>: the stored list of events
    ev_log,            \* the events recorded with success since the key was last deleted
    ev_next,           \* the number of events recorded so far
    ev_pc,             \* position of the _record_event call in progress
    ev_read,           \* the list that call read from Redis
    sv_dir,            \* settings.DOWNLOAD_DIR of the running server, resolved
    sv_row,            \* the row a download request is made for
    sv_exists,         \* whether a file exists at the row's file_path
    sv_result,         \* the answer of download_file to that request
    cb_state,          \* CircuitBreaker.state
    cb_failure_count,  \* CircuitBreaker.failure_count
    cb_elapsed,        \* whether recovery_timeout has passed since opened_at
    cb_calls,          \* the number of calls made through the wrapper so far
    cb_inflight,       \* the calls that were let through and have not returned yet
    cb_probes,         \* those of them that were let through while half-open
    cb_streak,         \* the failures recorded since the last recorded success
    ts_clock,          \* datetime.now(): the number of events built so far
    ts_events,         \* the timestamps of the events stored under events:<task_id>
    ts_pc,             \* per recording coroutine: its place in _record_event
    ts_stamp,          \* per recording coroutine: the timestamp of the event it built
    ts_read,           \* per recording coroutine: the list it read
    up_ticks,          \* the number of calls of update_progress for the task
    up_progress,       \* progress_data["progress"] of the task
    up_events,         \* the number of "progress" events recorded for the task
    progress_data,     \* per task: the snapshot stored under progress:<task_id>
    terminal_events,   \* per task: the completed, failed and cancelled events recorded
    rt_policy,         \* which retry policy runs the operation: "database" or "redis"
    rt_in_loop,        \* whether the wrapper is called from a running event loop
    rt_attempt,        \* the loop variable attempt of the policy
    rt_delay,          \* the local delay, in tenths of a second
    rt_errors,         \* the exceptions the operation has raised, one per failed call
    rt_slept,          \* the delays slept so far, in tenths of a second
    rt_result,         \* how the wrapper ended: "running", "returned", "raised", "none"
    fc_expiry,         \* RedisFallbackCache.expiry (and the keys of .cache), in dict order
    fc_now,            \* datetime.utcnow(), in seconds
    fc_recent,         \* the cached keys, from the least to the most recently used
    fc_result,         \* what the last get returned: "hit", "miss" or "none"
    ws_task,           \* worker["task"]: "none", "running" or "done"
    ws_heartbeat,      \* worker["last_heartbeat"]: "none", "fresh", or "stale" (older than 30 s)
    ws_hung,           \* whether process_func is stuck and sends no heartbeat any more
    ws_errors,         \* error_count of _run_worker_with_recovery
    ws_alive,          \* is_alive of the last WorkerHealth returned: "unknown", "yes" or "no"
    ws_restarts,       \* restart_count of the worker
    ws_job,            \* the job the worker took from the queue: "none" or "held"
    ws_child,          \* the child process working on that job: "none" or "running"
    conv_cancelled,    \* Redis sorted set "conversion:cancelled"
    conv_cancelling,   \* conversion task ids whose cancel request waits for the encoder to exit
    lock_expiry,       \* expiry of the Redis key lock:<resource> (0: no key)
    lock_owner,        \* the caller whose SET created the key (0: no key)
    active_locks,      \* QueueDeadlockPrevention.active_locks[resource] (0: no entry)
    lock_grant,        \* caller -> expiry of the lock it was granted and has not released (0: none)
    lock_now,          \* the clock, in seconds
    lock_result        \* what the last acquire_lock or release_lock did

jqvars == <<priority_queues, active_jobs, completed_jobs, failed_jobs, job,
            exec_count>>

dlvars == <<download_tasks, active_downloads, active_processes, proc, pc, cleanup,
            pq_job, cancel_pc, download_dir, faults_left>>

cvvars == <<conversion_tasks, conv_queue, conv_active, conv_failed, conv_completed, conv_enq,
            conv_pc, conv_job>>

rlvars == <<rl_impl, rl_count, rl_ttl, rl_rolled, rl_pc, rl_seen, rl_fault, rl_result>>

evvars == <<ev_ring, ev_log, ev_next, ev_pc, ev_read>>

svvars == <<sv_dir, sv_row, sv_exists, sv_result>>

cbvars == <<cb_state, cb_failure_count, cb_elapsed, cb_calls, cb_inflight, cb_probes,
            cb_streak>>

tsvars == <<ts_clock, ts_events, ts_pc, ts_stamp, ts_read>>

upvars == <<up_ticks, up_progress, up_events>>

ptvars == <<progress_data, terminal_events>>

rtvars == <<rt_policy, rt_in_loop, rt_attempt, rt_delay, rt_errors, rt_slept, rt_result>>

fcvars == <<fc_expiry, fc_now, fc_recent, fc_result>>

wsvars == <<ws_task, ws_heartbeat, ws_hung, ws_errors, ws_alive, ws_restarts, ws_job, ws_child>>

ccvars == <<conv_cancelled, conv_cancelling>>

lkvars == <<lock_expiry, lock_owner, active_locks, lock_grant, lock_now, lock_result>>

\* the variables of the components beside the job pipeline
sidevars == <<rlvars, evvars, svvars, cbvars, tsvars, upvars, ptvars, rtvars, fcvars, wsvars, ccvars, lkvars>>

\* for each of these components, the variables of the others
beside_rl == <<evvars, svvars, cbvars, tsvars, upvars, ptvars, rtvars, fcvars, wsvars, ccvars, lkvars>>
beside_ev == <<rlvars, svvars, cbvars, tsvars, upvars, ptvars, rtvars, fcvars, wsvars, ccvars, lkvars>>
beside_sv == <<rlvars, evvars, cbvars, tsvars, upvars, ptvars, rtvars, fcvars, wsvars, ccvars, lkvars>>
beside_cb == <<rlvars, evvars, svvars, tsvars, upvars, ptvars, rtvars, fcvars, wsvars, ccvars, lkvars>>
beside_ts == <<rlvars, evvars, svvars, cbvars, upvars, ptvars, rtvars, fcvars, wsvars, ccvars, lkvars>>
beside_up == <<rlvars, evvars, svvars, cbvars, tsvars, ptvars, rtvars, fcvars, wsvars, ccvars, lkvars>>
beside_pt == <<rlvars, evvars, svvars, cbvars, tsvars, upvars, rtvars, fcvars, wsvars, ccvars, lkvars>>
beside_rt == <<rlvars, evvars, svvars, cbvars, tsvars, upvars, ptvars, fcvars, wsvars, ccvars, lkvars>>
beside_fc == <<rlvars, evvars, svvars, cbvars, tsvars, upvars, ptvars, rtvars, wsvars, ccvars, lkvars>>
beside_ws == <<rlvars, evvars, svvars, cbvars, tsvars, upvars, ptvars, rtvars, fcvars, ccvars, lkvars>>
beside_cc == <<rlvars, evvars, svvars, cbvars, tsvars, upvars, ptvars, rtvars, fcvars, wsvars, lkvars>>
beside_lk == <<rlvars, evvars, svvars, cbvars, tsvars, upvars, ptvars, rtvars, fcvars, wsvars, ccvars>>

vars == <<jqvars, dlvars, cvvars, sidevars>>

\* the download pipeline's variables without the fault budget
dlstate == <<download_tasks, active_downloads, active_processes, proc, pc, cleanup,
             pq_job, cancel_pc, download_dir>>

\* ------------------------------------------------------------ Job objects
\* Job.__init__: status PENDING, retry_count 0
Job(priority, max_retries) ==
    [status |-> "pending", priority |-> priority,
     retry_count |-> 0, max_retries |-> max_retries]

NoJobObj == [status |-> "none", priority |-> NORMAL, retry_count |-> 0, max_retries |-> 0]

\* a queue item: the job reference together with its enqueue order, kept as the
\* rank of the item among all waiting items by the time of its put (1 = the
\* item that has waited longest)
Item(j, seq) == [job |-> j, seq |-> seq]
NoItem == [job |-> NoJob, seq |-> 0]

\* ----------------------------------------------------- JobQueue (pure part)
\* The state of the JobQueue object as one record, so that handlers that call
\* several JobQueue methods can thread it through.
JQState == [q |-> priority_queues, active |-> active_jobs, completed |-> completed_jobs,
            failed |-> failed_jobs, job |-> job]

RECURSIVE SumLen(_, _)
SumLen(q, ps) ==
    IF ps = {} THEN 0
    ELSE LET p == CHOOSE x \in ps : TRUE IN Len(q[p]) + SumLen(q, ps \ {p})

\* number of items waiting in all tiers
QSize(jq) == SumLen(jq.q, Priorities)

\* asyncio.Queue.put at the head of the queue
QueuePut_front(jq, p, j) ==
    [jq EXCEPT !.q[p] = <<Item(j, QSize(jq) + 1)>> \o @]

\* asyncio.Queue.put: append at the tail
QueuePut(jq, p, j) ==
    [jq EXCEPT !.q[p] = Append(@, Item(j, QSize(jq) + 1))]

\* the waiting items after item `it` left: later puts move up one rank
Renumber(q, it) ==
    [p \in Priorities |->
        [i \in DOMAIN q[p] |->
            IF q[p][i].seq > it.seq THEN Item(q[p][i].job, q[p][i].seq - 1) ELSE q[p][i]]]

\* JobQueue.enqueue
JobQueue_enqueue(jq, j, priority, max_retries) ==
    QueuePut([jq EXCEPT !.job[j] = Job(priority, max_retries)], priority, j)

\* dequeue scanning the tiers in ascending order
DequeueTier_ascending(jq) ==
    LET nonEmpty == {p \in Priorities : Len(jq.q[p]) > 0}
    IN  CHOOSE p \in nonEmpty : \A r \in nonEmpty : p <= r

\* the tier dequeue reads from: sorted(keys, reverse=True), first non-empty
DequeueTier(jq) ==
    LET nonEmpty == {p \in Priorities : Len(jq.q[p]) > 0}
    IN  CHOOSE p \in nonEmpty : \A r \in nonEmpty : r <= p

QueuesEmpty(jq) == \A p \in Priorities : Len(jq.q[p]) = 0

\* the item queue.get_nowait() returns
DequeueItem(jq) ==
    IF QueuesEmpty(jq) THEN NoItem ELSE Head(jq.q[DequeueTier(jq)])

\* JobQueue.dequeue: state after the call
JobQueue_dequeue(jq) ==
    IF QueuesEmpty(jq) THEN jq
    ELSE LET p == DequeueTier(jq)
             j == DequeueItem(jq).job
         IN  [jq EXCEPT !.q = Renumber([jq.q EXCEPT ![p] = Tail(@)], DequeueItem(jq)),
                        !.active = @ \cup {j},
                        !.job[j].status = "running"]

\* JobQueue.mark_completed
JobQueue_mark_completed(jq, j) ==
    IF j \notin jq.active THEN jq
    ELSE [jq EXCEPT !.active = @ \ {j},
                    !.job[j].status = "completed",
                    !.completed = @ \cup {j}]

\* the retry test with an off-by-one comparison
ShouldRetry_le(jb, should_retry) ==
    should_retry /\ jb.retry_count <= jb.max_retries

\* the retry test of mark_failed
ShouldRetry(jb, should_retry) ==
    should_retry /\ jb.retry_count < jb.max_retries

\* JobQueue.mark_failed
JobQueue_mark_failed(jq, j, should_retry) ==
    IF j \notin jq.active THEN jq
    ELSE IF ShouldRetry(jq.job[j], should_retry)
         THEN \* re-enqueued with the same priority; the job is put back into
              \* active_jobs after the put (job_manager.py line 191)
              LET jq1 == [jq EXCEPT !.job[j].retry_count = @ + 1,
                                    !.job[j].status = "retrying"]
              IN  [QueuePut(jq1, jq1.job[j].priority, j) EXCEPT !.active = @ \cup {j}]
         ELSE [jq EXCEPT !.active = @ \ {j},
                         !.job[j].status = "failed",
                         !.failed = @ \cup {j}]

\* JobQueue.mark_cancelled
JobQueue_mark_cancelled(jq, j) ==
    IF j \notin jq.active THEN jq
    ELSE [jq EXCEPT !.active = @ \ {j}, !.job[j].status = "cancelled"]

\* write a JobQueue state back to the variables
SetJQ(jq) ==
    /\ priority_queues' = jq.q
    /\ active_jobs' = jq.active
    /\ completed_jobs' = jq.completed
    /\ failed_jobs' = jq.failed
    /\ job' = jq.job

\* bookkeeping of what dequeue handed out
NoteDequeue(jq) ==
    LET it == DequeueItem(jq)
    IN  IF it = NoItem
        THEN UNCHANGED exec_count
        ELSE exec_count' = [exec_count EXCEPT ![it.job] = @ + 1]

InitJQ ==
    /\ priority_queues = [p \in Priorities |-> <<>>]
    /\ active_jobs = {}
    /\ completed_jobs = {}
    /\ failed_jobs = {}
    /\ job = [j \in Jobs |-> NoJobObj]
    /\ exec_count = [j \in Jobs |-> 0]

\* ------------------------------------------- SpecJQ: the JobQueue by itself
JQEnqueue(j, p, m) ==
    /\ job[j].status = "none"
    /\ SetJQ(JobQueue_enqueue(JQState, j, p, m))
    /\ UNCHANGED <<exec_count, dlvars, cvvars, sidevars>>

JQDequeue ==
    /\ ~QueuesEmpty(JQState)
    /\ SetJQ(JobQueue_dequeue(JQState))
    /\ NoteDequeue(JQState)
    /\ UNCHANGED <<dlvars, cvvars, sidevars>>

JQMarkCompleted(j) ==
    /\ job[j].status # "none"
    /\ SetJQ(JobQueue_mark_completed(JQState, j))
    /\ UNCHANGED <<exec_count, dlvars, cvvars, sidevars>>

JQMarkFailed(j, should_retry) ==
    /\ job[j].status # "none"
    /\ SetJQ(JobQueue_mark_failed(JQState, j, should_retry))
    /\ UNCHANGED <<exec_count, dlvars, cvvars, sidevars>>

JQMarkCancelled(j) ==
    /\ job[j].status # "none"
    /\ SetJQ(JobQueue_mark_cancelled(JQState, j))
    /\ UNCHANGED <<exec_count, dlvars, cvvars, sidevars>>

NextJQ ==
    \/ \E j \in Jobs, p \in Priorities, m \in 0..MaxRetriesArg : JQEnqueue(j, p, m)
    \/ JQDequeue
    \/ \E j \in Jobs : JQMarkCompleted(j)
    \/ \E j \in Jobs, r \in BOOLEAN : JQMarkFailed(j, r)
    \/ \E j \in Jobs : JQMarkCancelled(j)

\* ------------------------------------------------------- download pipeline
NoRow == [status |-> "none", progress |-> 0, file_path |-> NoPath,
          file_size |-> NoSize, error_message |-> "null"]

\* the row DownloadService.create_task inserts
NewTask == [status |-> "pending", progress |-> 0, file_path |-> NoPath,
            file_size |-> NoSize, error_message |-> "null"]

InitDL ==
    /\ download_tasks = [t \in Tasks |-> NoRow]
    /\ active_downloads = {}
    /\ active_processes = {}
    /\ proc = [t \in Tasks |-> "none"]
    /\ pc = [t \in Tasks |-> "none"]
    /\ cleanup = [t \in Tasks |-> 0]
    /\ pq_job = NoJob
    /\ cancel_pc = [t \in Tasks |-> "idle"]
    /\ download_dir = [t \in Tasks |-> "empty"]
    /\ faults_left = MaxFaults

\* the entry dict ConversionQueueManager.enqueue builds
QueueEntry(task_id, priority, max_retries) ==
    [task_id |-> task_id, priority |-> priority, max_retries |-> max_retries,
     retry_count |-> 0, status |-> "queued"]

NoEntry == [task_id |-> 0, priority |-> 0, max_retries |-> 0, retry_count |-> 0,
            status |-> "none"]

\* the conversion pipeline before the first request, for the task ids in ids
InitConv(ids) ==
    /\ conversion_tasks = [c \in ids |-> "none"]
    /\ conv_queue = {}
    /\ conv_active = {}
    /\ conv_failed = {}
    /\ conv_completed = {}
    /\ conv_enq = <<>>
    /\ conv_pc = [c \in ids |-> "none"]
    /\ conv_job = [c \in ids |-> NoEntry]

InitCV == InitConv(ConvTasks)

\* the rate limiter before the first request, served by implementation impl
InitRL(impl) ==
    /\ rl_impl = impl
    /\ rl_count = 0
    /\ rl_ttl = FALSE
    /\ rl_rolled = FALSE
    /\ rl_pc = [r \in Requests |-> "new"]
    /\ rl_seen = [r \in Requests |-> 0]
    /\ rl_fault = [r \in Requests |-> FALSE]
    /\ rl_result = [r \in Requests |-> "none"]

\* no event recorded yet
InitEV ==
    /\ ev_ring = <<>>
    /\ ev_log = <<>>
    /\ ev_next = 0
    /\ ev_pc = "idle"
    /\ ev_read = <<>>

\* a server whose DOWNLOAD_DIR is dir, asked for the file of row
InitSV(dir, row, exists) ==
    /\ sv_dir = dir
    /\ sv_row = row
    /\ sv_exists = exists
    /\ sv_result = "none"

\* CircuitBreaker.__init__
InitCB ==
    /\ cb_state = "closed"
    /\ cb_failure_count = 0
    /\ cb_elapsed = FALSE
    /\ cb_calls = 0
    /\ cb_inflight = 0
    /\ cb_probes = 0
    /\ cb_streak = 0

\* the coroutines that record events of one task
Recorders == 1..NumRecorders

\* no event stored, no call of _record_event in progress
InitTS ==
    /\ ts_clock = 0
    /\ ts_events = <<>>
    /\ ts_pc = [c \in Recorders |-> "idle"]
    /\ ts_stamp = [c \in Recorders |-> 0]
    /\ ts_read = [c \in Recorders |-> <<>>]

\* the snapshot after initialize_task: progress 0.0, no progress event
InitUP ==
    /\ up_ticks = 0
    /\ up_progress = 0
    /\ up_events = 0

\* no snapshot stored under progress:<task_id>
NoProgress == [status |-> "none", completed_at |-> FALSE]

\* no task has a snapshot, no event was recorded
InitPT ==
    /\ progress_data = [t \in Tasks |-> NoProgress]
    /\ terminal_events = [t \in Tasks |-> 0]

\* a wrapped operation is about to be called for the first time, under the
\* given policy, from a coroutine (in_loop) or from a plain thread
InitRT(policy, in_loop) ==
    /\ rt_policy = policy
    /\ rt_in_loop = in_loop
    /\ rt_attempt = 0
    /\ rt_delay = INITIAL_DELAY
    /\ rt_errors = <<>>
    /\ rt_slept = <<>>
    /\ rt_result = "running"

\* RedisFallbackCache.__init__: both dicts empty
InitFC ==
    /\ fc_expiry = <<>>
    /\ fc_now = 0
    /\ fc_recent = <<>>
    /\ fc_result = "none"

\* WorkerSupervisor.register_worker: no task, no heartbeat
InitWS ==
    /\ ws_task = "none"
    /\ ws_heartbeat = "none"
    /\ ws_hung = FALSE
    /\ ws_errors = 0
    /\ ws_alive = "unknown"
    /\ ws_restarts = 0
    /\ ws_job = "none"
    /\ ws_child = "none"

\* no conversion task was cancelled, no cancel request is waiting
InitCC ==
    /\ conv_cancelled = {}
    /\ conv_cancelling = {}

\* no lock key in Redis, no caller was granted the lock
InitLK ==
    /\ lock_expiry = 0
    /\ lock_owner = 0
    /\ active_locks = 0
    /\ lock_grant = [c \in Callers |-> 0]
    /\ lock_now = 0
    /\ lock_result = "none"

\* the components beside the job pipeline at start
InitSide ==
    /\ InitRL("auth")
    /\ InitEV
    /\ InitCB
    /\ InitTS
    /\ InitSV(<<<<"a">>>>, [status |-> "pending", file_path |-> <<>>], FALSE)
    /\ InitUP
    /\ InitPT
    /\ InitRT("database", FALSE)
    /\ InitFC
    /\ InitWS
    /\ InitCC
    /\ InitLK

Init == InitJQ /\ InitDL /\ InitCV /\ InitSide

\* the same start, in an environment that injects no fault
InitNoFaults ==
    /\ InitJQ /\ InitCV /\ InitSide
    /\ download_tasks = [t \in Tasks |-> NoRow]
    /\ active_downloads = {}
    /\ active_processes = {}
    /\ proc = [t \in Tasks |-> "none"]
    /\ pc = [t \in Tasks |-> "none"]
    /\ cleanup = [t \in Tasks |-> 0]
    /\ pq_job = NoJob
    /\ cancel_pc = [t \in Tasks |-> "idle"]
    /\ download_dir = [t \in Tasks |-> "empty"]
    /\ faults_left = 0

\* the same start, in an environment that may inject n faults
InitWithFaults(n) ==
    /\ InitJQ /\ InitCV /\ InitSide
    /\ download_tasks = [t \in Tasks |-> NoRow]
    /\ active_downloads = {}
    /\ active_processes = {}
    /\ proc = [t \in Tasks |-> "none"]
    /\ pc = [t \in Tasks |-> "none"]
    /\ cleanup = [t \in Tasks |-> 0]
    /\ pq_job = NoJob
    /\ cancel_pc = [t \in Tasks |-> "idle"]
    /\ download_dir = [t \in Tasks |-> "empty"]
    /\ faults_left = n

\* enough faults to fail every attempt of one job
InitExhaust == InitWithFaults(MAX_RETRIES + 1)

\* -------------------------------------------------------- progress snapshot
\* ProgressTracker.initialize_task lines 44-66: the snapshot is written anew
ProgressTracker_initialize_task == [status |-> "pending", completed_at |-> FALSE]

\* ProgressTracker.start_download lines 87-99: nothing is written when there
\* is no snapshot
ProgressTracker_start_download(data) ==
    IF data = NoProgress THEN data ELSE [data EXCEPT !.status = "downloading"]

\* ProgressTracker.mark_failed lines 241-253
ProgressTracker_mark_failed(data) ==
    IF data = NoProgress THEN data
    ELSE [data EXCEPT !.status = "failed", !.completed_at = TRUE]

\* ProgressTracker.cleanup_progress lines 367-369: the key is deleted
ProgressTracker_cleanup_progress == NoProgress

\* the events mark_failed has recorded after the call (lines 255-259)
EventsAfterTerminal(data, n) == IF data = NoProgress THEN n ELSE n + 1

\* an operation of the environment succeeds, or fails using up one fault
Env(ok) ==
    IF ok THEN UNCHANGED faults_left
    ELSE faults_left > 0 /\ faults_left' = faults_left - 1

\* RedisManager.can_start_download; redis_ok = FALSE is the except branch
can_start_download(active, redis_ok) ==
    IF redis_ok THEN Cardinality(active) < MAX_CONCURRENT_DOWNLOADS ELSE FALSE

\* RedisManager.add_to_active: the set after the call (unchanged when SADD fails)
add_to_active(active, id, redis_ok) ==
    IF redis_ok THEN active \cup {id} ELSE active

\* RedisManager.remove_from_active
remove_from_active(active, id, redis_ok) ==
    IF redis_ok THEN active \ {id} ELSE active

\* DownloadService.create_task: insert the row, enqueue the job
CreateDownload(t) ==
    /\ download_tasks[t] = NoRow
    /\ job[t].status = "none"
    /\ download_tasks' = [download_tasks EXCEPT ![t] = NewTask]
    /\ SetJQ(JobQueue_enqueue(JQState, t, NORMAL, MAX_RETRIES))
    /\ UNCHANGED <<exec_count, active_downloads, active_processes, proc, pc, cleanup,
                   pq_job, cancel_pc, faults_left>>
    /\ UNCHANGED <<download_dir, cvvars, sidevars>>

\* OptimizedQueueWorker.process_queue, lines 79-89: capacity check, dequeue, lookup
ProcessQueueTick(redis_ok) ==
    /\ pq_job = NoJob
    /\ can_start_download(active_downloads, redis_ok)
    /\ ~QueuesEmpty(JQState)
    /\ LET j   == DequeueItem(JQState).job
           jq1 == JobQueue_dequeue(JQState)
       IN  IF download_tasks[j] # NoRow
           THEN SetJQ(jq1) /\ pq_job' = j
           ELSE \* "Task not found": mark_failed with the default should_retry=True
                SetJQ(JobQueue_mark_failed(jq1, j, TRUE)) /\ pq_job' = NoJob
    /\ NoteDequeue(JQState)
    /\ UNCHANGED <<download_tasks, active_downloads, active_processes, proc, pc, cleanup,
                   cancel_pc, faults_left>>
    /\ UNCHANGED <<download_dir, cvvars, sidevars>>

\* process_queue, lines 92-104: initialize_task, add_to_active, create_task.
\* init_ok = FALSE: initialize_task raises, the iteration is abandoned.
\* add_ok = FALSE: SADD fails, add_to_active returns False, which is not looked at.
ProcessQueueClaim(init_ok, add_ok) ==
    /\ pq_job # NoJob
    /\ Env(init_ok /\ add_ok)
    /\ ~init_ok => add_ok
    /\ IF init_ok
       THEN /\ active_downloads' = add_to_active(active_downloads, pq_job, add_ok)
            /\ pc' = [pc EXCEPT ![pq_job] = "start"]
            /\ progress_data' = [progress_data EXCEPT
                                    ![pq_job] = ProgressTracker_initialize_task]
       ELSE UNCHANGED <<active_downloads, pc, progress_data>>
    /\ pq_job' = NoJob
    /\ UNCHANGED <<jqvars, download_tasks, active_processes, proc, cleanup, cancel_pc>>
    /\ UNCHANGED <<download_dir, cvvars, beside_pt, terminal_events>>

\* _execute_download up to the first commit of DownloadService.download
\* (lines 134-137 and download lines 295-306).
\* db = "ok": the row is read and status "downloading" is committed.
\* db = "transient" / "error": the query outside the try block raises (a
\* ConnectionError/TimeoutError, or another exception); the exception reaches
\* the except branch of _execute_download, which calls mark_failed.
ExecuteDownloadStart(t, db) ==
    /\ pc[t] = "start"
    /\ Env(db = "ok")
    /\ IF db = "ok"
       THEN /\ IF download_tasks[t] = NoRow
               THEN \* "Task not found": download returns at once
                    /\ pc' = [pc EXCEPT ![t] = "return"]
                    /\ UNCHANGED <<jqvars, download_tasks, cleanup>>
               ELSE /\ download_tasks' = [download_tasks EXCEPT ![t].status = "downloading"]
                    /\ pc' = [pc EXCEPT ![t] = "spawn"]
                    /\ UNCHANGED <<jqvars, cleanup>>
            /\ progress_data' = [progress_data EXCEPT
                                    ![t] = ProgressTracker_start_download(@)]
            /\ UNCHANGED terminal_events
       ELSE /\ SetJQ(JobQueue_mark_failed(JQState, t, db = "transient"))
            /\ pc' = [pc EXCEPT ![t] = "none"]
            /\ cleanup' = [cleanup EXCEPT ![t] = @ + 1]
            /\ progress_data' = [progress_data EXCEPT
                                    ![t] = ProgressTracker_mark_failed(
                                              ProgressTracker_start_download(@))]
            /\ terminal_events' = [terminal_events EXCEPT
                                      ![t] = EventsAfterTerminal(progress_data[t], @)]
            /\ UNCHANGED <<exec_count, download_tasks>>
    /\ UNCHANGED <<active_downloads, active_processes, proc, pq_job, cancel_pc>>
    /\ UNCHANGED <<download_dir, cvvars, beside_pt>>

\* download lines 349-358: create_subprocess_exec; ok = FALSE: it raises and the
\* except Exception branch commits "failed"
DownloadSpawn(t, ok) ==
    /\ pc[t] = "spawn"
    /\ Env(ok)
    /\ IF ok
       THEN /\ active_processes' = active_processes \cup {t}
            /\ proc' = [proc EXCEPT ![t] = "running"]
            /\ pc' = [pc EXCEPT ![t] = "run"]
            /\ UNCHANGED download_tasks
       ELSE /\ download_tasks' = [download_tasks EXCEPT ![t].status = "failed",
                                                       ![t].error_message = "exception"]
            /\ pc' = [pc EXCEPT ![t] = "return"]
            /\ UNCHANGED <<active_processes, proc>>
    /\ UNCHANGED <<jqvars, active_downloads, cleanup, pq_job, cancel_pc>>
    /\ UNCHANGED <<download_dir, cvvars, sidevars>>

\* download lines 362-374: a stdout line carrying a percent value; the child
\* that reports progress has written that much of <task id>.<ext>.part
DownloadProgress(t, p) ==
    /\ pc[t] = "run"
    /\ proc[t] = "running"
    /\ download_tasks[t].progress # p
    /\ download_tasks' = [download_tasks EXCEPT ![t].progress = p]
    /\ download_dir' = [download_dir EXCEPT ![t] = "partial"]
    /\ UNCHANGED <<jqvars, active_downloads, active_processes, proc, pc, cleanup,
                   pq_job, cancel_pc, faults_left>>
    /\ UNCHANGED <<cvvars, sidevars>>

\* the row download writes for each way the child process can end
\* (lines 376-414)
DownloadResult(row, outcome, size) ==
    CASE outcome = "timeout" ->
            [row EXCEPT !.status = "failed", !.error_message = "timeout"]
      [] outcome = "exit0_file" ->
            [row EXCEPT !.file_path = "file", !.file_size = size,
                        !.status = "completed", !.progress = 100]
      [] outcome = "exit0_nofile" ->
            [row EXCEPT !.status = "failed", !.error_message = "nofile"]
      [] outcome = "exit_error" ->
            [row EXCEPT !.status = "failed", !.error_message = "stderr"]

Outcomes == {"timeout", "exit0_file", "exit0_nofile", "exit_error"}

\* what the child leaves under <task id>.* for each way it can end: return code
\* 0 with a file found by the glob of line 390 is the finished output, return
\* code 0 with an empty glob is an empty directory, and a child that was killed
\* or failed leaves what it had written; download removes nothing
FilesAfter(files, outcome) ==
    CASE outcome = "exit0_file"   -> "output"
      [] outcome = "exit0_nofile" -> "empty"
      [] OTHER                    -> files

\* download lines 376-433: the child ends (or the wait times out), the result is
\* committed, the process is dropped from active_processes.  A child that was
\* sent terminate ends with a non-zero return code.
DownloadExit(t, outcome, size) ==
    /\ pc[t] = "run"
    /\ proc[t] \in {"terminated", "killed"} => outcome = "exit_error"
    /\ outcome # "exit0_file" => size = 0
    /\ download_tasks' = [download_tasks EXCEPT ![t] = DownloadResult(@, outcome, size)]
    /\ download_dir' = [download_dir EXCEPT ![t] = FilesAfter(@, outcome)]
    /\ active_processes' = active_processes \ {t}
    /\ proc' = [proc EXCEPT ![t] = "none"]
    /\ pc' = [pc EXCEPT ![t] = "return"]
    /\ UNCHANGED <<jqvars, active_downloads, cleanup, pq_job, cancel_pc, faults_left>>
    /\ UNCHANGED <<cvvars, sidevars>>

\* download line 434 and _execute_download lines 140-146: remove_from_active in
\* download's finally, then download returns normally and the job is marked
\* completed
DownloadReturn(t, redis_ok) ==
    /\ pc[t] = "return"
    /\ Env(redis_ok)
    /\ active_downloads' = remove_from_active(active_downloads, t, redis_ok)
    /\ SetJQ(JobQueue_mark_completed(JQState, t))
    /\ pc' = [pc EXCEPT ![t] = "none"]
    /\ cleanup' = [cleanup EXCEPT ![t] = @ + 1]
    /\ UNCHANGED <<exec_count, download_tasks, active_processes, proc, pq_job, cancel_pc>>
    /\ UNCHANGED <<download_dir, cvvars, sidevars>>

\* _execute_download lines 164-166: remove_from_active in the finally block
ExecuteDownloadFinally(t, redis_ok) ==
    /\ cleanup[t] > 0
    /\ Env(redis_ok)
    /\ active_downloads' = remove_from_active(active_downloads, t, redis_ok)
    /\ cleanup' = [cleanup EXCEPT ![t] = @ - 1]
    /\ UNCHANGED <<jqvars, download_tasks, active_processes, proc, pc, pq_job, cancel_pc>>
    /\ UNCHANGED <<download_dir, cvvars, sidevars>>

\* the status check of the cancel endpoint (endpoints.py line 225)
Cancellable(row) == row.status \in {"pending", "downloading"}

\* endpoints.cancel_task lines 221-234 with DownloadService.cancel_task: the
\* status check, then terminate is sent to the child if there is one
CancelRequest(t) ==
    /\ cancel_pc[t] \in {"idle", "rejected"}
    /\ download_tasks[t] # NoRow
    /\ Cancellable(download_tasks[t])
    /\ proc' = [proc EXCEPT ![t] = IF t \in active_processes THEN "terminated" ELSE @]
    /\ cancel_pc' = [cancel_pc EXCEPT ![t] = "wait"]
    /\ UNCHANGED <<jqvars, download_tasks, active_downloads, active_processes, pc, cleanup,
                   pq_job, faults_left>>
    /\ UNCHANGED <<download_dir, cvvars, sidevars>>

\* endpoints.cancel_task lines 225-230: the task is neither pending nor
\* downloading, InvalidStateError is raised and nothing is written
CancelRejected(t) ==
    /\ cancel_pc[t] = "idle"
    /\ download_tasks[t] # NoRow
    /\ ~Cancellable(download_tasks[t])
    /\ cancel_pc' = [cancel_pc EXCEPT ![t] = "rejected"]
    /\ UNCHANGED <<jqvars, download_tasks, active_downloads, active_processes, proc, pc,
                   cleanup, pq_job, faults_left>>
    /\ UNCHANGED <<download_dir, cvvars, sidevars>>

\* DownloadService.cancel_task lines 482-486 and endpoints.cancel_task lines
\* 237-238: the wait for the child ends, either because the child has exited or
\* because the 5 s ran out, in which case kill is sent and cancel_task returns
\* without waiting for the child; then status "cancelled" is committed and the
\* request is answered
CancelCommit(t) ==
    /\ cancel_pc[t] = "wait"
    /\ proc' = [proc EXCEPT ![t] = IF @ = "terminated" THEN "killed" ELSE @]
    /\ download_tasks' = [download_tasks EXCEPT ![t].status = "cancelled"]
    /\ cancel_pc' = [cancel_pc EXCEPT ![t] = "idle"]
    /\ UNCHANGED <<jqvars, active_downloads, active_processes, pc, cleanup, pq_job,
                   faults_left>>
    /\ UNCHANGED <<download_dir, cvvars, sidevars>>

NextDL ==
    \/ \E t \in Tasks : CreateDownload(t)
    \/ \E ok \in BOOLEAN : ProcessQueueTick(ok)
    \/ \E i, a \in BOOLEAN : ProcessQueueClaim(i, a)
    \/ \E t \in Tasks, db \in {"ok", "transient", "error"} : ExecuteDownloadStart(t, db)
    \/ \E t \in Tasks, ok \in BOOLEAN : DownloadSpawn(t, ok)
    \/ \E t \in Tasks, p \in ProgressTicks : DownloadProgress(t, p)
    \/ \E t \in Tasks, o \in Outcomes, s \in FileSizes : DownloadExit(t, o, s)
    \/ \E t \in Tasks, ok \in BOOLEAN : DownloadReturn(t, ok)
    \/ \E t \in Tasks, ok \in BOOLEAN : ExecuteDownloadFinally(t, ok)
    \/ \E t \in Tasks : CancelRequest(t)
    \/ \E t \in Tasks : CancelRejected(t)
    \/ \E t \in Tasks : CancelCommit(t)

\* ------------------------------------------------------ conversion pipeline
\* A Redis sorted set is a set of (member, score) pairs; the member is the
\* JSON text of a queue entry, which begins with its task_id.

\* ZRANGE key 0 0: lowest score first, equal scores in the order of the member text
ZFirst(z) ==
    CHOOSE x \in z : \A y \in z :
        \/ x.score < y.score
        \/ x.score = y.score /\ x.entry.task_id <= y.entry.task_id

\* ZADD key {member: score} (nx / xx=False): a member already present keeps its
\* score under nx; the callers only add members that are not present
ZAdd(z, entry, score) ==
    IF \E x \in z : x.entry = entry THEN z ELSE z \cup {[entry |-> entry, score |-> score]}

\* ZREM key member
ZRem(z, entry) == {x \in z : x.entry # entry}

\* the members of a sorted set that carry a task id
ZFind(z, task_id) == {x \in z : x.entry.task_id = task_id}

\* the state of the four sorted sets as one record
CQState == [queue |-> conv_queue, active |-> conv_active, failed |-> conv_failed,
            completed |-> conv_completed, enq |-> conv_enq]

\* a sequence of task ids without id
Without(ids, id) == SelectSeq(ids, LAMBDA x : x # id)

\* the order of arrival after sorted set z has become z2 by a write that
\* concerns task_id: the id goes to the end when its member is new in z2, and
\* leaves the order when z2 holds no member of it
Arrivals(ids, z, z2, task_id) ==
    IF ZFind(z2, task_id) = {} THEN Without(ids, task_id)
    ELSE IF ZFind(z2, task_id) = ZFind(z, task_id) THEN ids
    ELSE Append(Without(ids, task_id), task_id)

\* the queue state with conversion:queue replaced by z2 through a write that
\* concerns task_id
WithQueue(cq, z2, task_id) ==
    [cq EXCEPT !.queue = z2, !.enq = Arrivals(cq.enq, cq.queue, z2, task_id)]

\* ConversionQueueManager.enqueue: score = -priority
ConversionQueue_enqueue(cq, task_id, priority, max_retries) ==
    WithQueue(cq, ZAdd(cq.queue, QueueEntry(task_id, priority, max_retries), 0 - priority),
              task_id)

\* ConversionQueueManager.dequeue: first member moves to conversion:active with score 0
ConversionQueue_dequeue(cq) ==
    IF cq.queue = {} THEN cq
    ELSE LET e == ZFirst(cq.queue).entry
         IN  [WithQueue(cq, ZRem(cq.queue, e), e.task_id) EXCEPT !.active = ZAdd(@, e, 0)]

\* ConversionQueueManager.mark_active: looks for the task in conversion:queue
ConversionQueue_mark_active(cq, task_id) ==
    IF ZFind(cq.queue, task_id) = {} THEN cq
    ELSE LET e == (CHOOSE x \in ZFind(cq.queue, task_id) : TRUE).entry
         IN  [WithQueue(cq, ZRem(cq.queue, e), task_id) EXCEPT !.active = ZAdd(@, e, 0)]

\* ConversionQueueManager.mark_completed
ConversionQueue_mark_completed(cq, task_id) ==
    IF ZFind(cq.active, task_id) = {} THEN cq
    ELSE LET e == (CHOOSE x \in ZFind(cq.active, task_id) : TRUE).entry
         IN  [cq EXCEPT !.completed = ZAdd(@, [e EXCEPT !.status = "completed"], 0),
                        !.active = ZRem(@, e)]

\* the priority a retried entry is put back with: the retry count before the
\* increment is what is multiplied
RetryPriority(entry) == entry.priority - entry.retry_count * RETRY_PENALTY

\* ConversionQueueManager.mark_failed: the task is looked up in conversion:active,
\* or in conversion:queue when conversion:active is empty
ConversionQueue_mark_failed(cq, task_id, should_retry) ==
    LET items == IF cq.active # {} THEN cq.active ELSE cq.queue
    IN  IF ZFind(items, task_id) = {} THEN cq
        ELSE LET e == (CHOOSE x \in ZFind(items, task_id) : TRUE).entry
             IN  IF should_retry /\ e.retry_count < e.max_retries
                 THEN LET r == [e EXCEPT !.retry_count = @ + 1, !.status = "queued"]
                      IN  [WithQueue(cq, ZAdd(ZRem(cq.queue, e), r, 0 - RetryPriority(e)),
                                     task_id)
                              EXCEPT !.active = ZRem(@, e)]
                 ELSE [WithQueue(cq, ZRem(cq.queue, e), task_id)
                          EXCEPT !.failed = ZAdd(@, [e EXCEPT !.status = "failed"], 0),
                                 !.active = ZRem(@, e)]

\* write a conversion queue state back to the variables
SetCQ(cq) ==
    /\ conv_queue' = cq.queue
    /\ conv_active' = cq.active
    /\ conv_failed' = cq.failed
    /\ conv_completed' = cq.completed
    /\ conv_enq' = cq.enq

\* conversion_endpoints.create_conversion_task: insert the row, enqueue the entry
ConvCreate(c, priority) ==
    /\ conversion_tasks[c] = "none"
    /\ conversion_tasks' = [conversion_tasks EXCEPT ![c] = "pending"]
    /\ SetCQ(ConversionQueue_enqueue(CQState, c, priority, ConvMaxRetries))
    /\ UNCHANGED <<conv_pc, conv_job>>
    /\ UNCHANGED <<jqvars, dlvars, sidevars>>

\* ConversionWorker.process_queue, one iteration: the capacity test on
\* conversion:active, dequeue, mark_active, add_to_active on the set shared with
\* the download worker, create_task(_execute_conversion)
ConvProcessQueue ==
    /\ Cardinality(conv_active) < MAX_CONCURRENT_CONVERSIONS
    /\ conv_queue # {}
    /\ LET e == ZFirst(conv_queue).entry
           c == e.task_id
       IN  /\ SetCQ(ConversionQueue_mark_active(ConversionQueue_dequeue(CQState), c))
           /\ active_downloads' = add_to_active(active_downloads, c, TRUE)
           /\ conv_pc' = [conv_pc EXCEPT ![c] = "start"]
           /\ conv_job' = [conv_job EXCEPT ![c] = e]
    /\ UNCHANGED conversion_tasks
    /\ UNCHANGED <<jqvars, download_tasks, active_processes, proc, pc, cleanup, pq_job,
                   cancel_pc, download_dir, faults_left, sidevars>>

\* ConversionService.convert up to its first commit: status CONVERTING
ConvStart(c) ==
    /\ conv_pc[c] = "start"
    /\ conversion_tasks' = [conversion_tasks EXCEPT ![c] = "converting"]
    /\ conv_pc' = [conv_pc EXCEPT ![c] = "run"]
    /\ UNCHANGED <<conv_queue, conv_active, conv_failed, conv_completed, conv_enq, conv_job>>
    /\ UNCHANGED <<jqvars, dlvars, sidevars>>

\* ConversionService.convert lines 366-423: the encoder ends, the result is
\* committed, remove_from_active runs in the finally block
ConvFinish(c, ok) ==
    /\ conv_pc[c] = "run"
    /\ conversion_tasks' = [conversion_tasks EXCEPT ![c] = IF ok THEN "completed" ELSE "failed"]
    /\ active_downloads' = remove_from_active(active_downloads, c, TRUE)
    /\ conv_pc' = [conv_pc EXCEPT ![c] = "check"]
    /\ UNCHANGED <<conv_queue, conv_active, conv_failed, conv_completed, conv_enq, conv_job>>
    /\ UNCHANGED <<jqvars, download_tasks, active_processes, proc, pc, cleanup, pq_job,
                   cancel_pc, download_dir, faults_left, sidevars>>

\* _execute_conversion lines 169-226: the status is read back, the entry is
\* marked completed or failed, remove_from_active runs in the finally block
ConvSettle(c) ==
    /\ conv_pc[c] = "check"
    /\ IF conversion_tasks[c] = "completed"
       THEN SetCQ(ConversionQueue_mark_completed(CQState, c))
       ELSE SetCQ(ConversionQueue_mark_failed(CQState, c,
                     conv_job[c].retry_count < conv_job[c].max_retries))
    /\ active_downloads' = remove_from_active(active_downloads, c, TRUE)
    /\ conv_pc' = [conv_pc EXCEPT ![c] = "none"]
    /\ UNCHANGED <<conversion_tasks, conv_job>>
    /\ UNCHANGED <<jqvars, download_tasks, active_processes, proc, pc, cleanup, pq_job,
                   cancel_pc, download_dir, faults_left, sidevars>>

NextAll ==
    \/ \E t \in Tasks : CreateDownload(t)
    \/ \E ok \in BOOLEAN : ProcessQueueTick(ok)
    \/ \E i, a \in BOOLEAN : ProcessQueueClaim(i, a)
    \/ \E t \in Tasks, db \in {"ok", "transient", "error"} : ExecuteDownloadStart(t, db)
    \/ \E t \in Tasks, ok \in BOOLEAN : DownloadSpawn(t, ok)
    \/ \E t \in Tasks, p \in ProgressTicks : DownloadProgress(t, p)
    \/ \E t \in Tasks, o \in Outcomes, s \in FileSizes : DownloadExit(t, o, s)
    \/ \E t \in Tasks, ok \in BOOLEAN : DownloadReturn(t, ok)
    \/ \E t \in Tasks, ok \in BOOLEAN : ExecuteDownloadFinally(t, ok)
    \/ \E t \in Tasks : CancelRequest(t)
    \/ \E t \in Tasks : CancelRejected(t)
    \/ \E t \in Tasks : CancelCommit(t)
    \/ \E c \in ConvTasks, p \in ConvPriorities : ConvCreate(c, p)
    \/ ConvProcessQueue
    \/ \E c \in ConvTasks : ConvStart(c)
    \/ \E c \in ConvTasks, ok \in BOOLEAN : ConvFinish(c, ok)
    \/ \E c \in ConvTasks : ConvSettle(c)

\* ---------------------------------- the conversion queue driven alone
\* every task id the four sorted sets hold
KnownIds(cq) ==
    {x.entry.task_id : x \in cq.queue \cup cq.active \cup cq.failed \cup cq.completed}

\* enqueue for a new conversion task (its id is a fresh uuid4)
CQEnqueue(c, priority) ==
    /\ c \notin KnownIds(CQState)
    /\ SetCQ(ConversionQueue_enqueue(CQState, c, priority, ConvMaxRetries))
    /\ UNCHANGED <<conversion_tasks, conv_pc, conv_job>>
    /\ UNCHANGED <<jqvars, dlvars, sidevars>>

CQDequeue ==
    /\ conv_queue # {}
    /\ SetCQ(ConversionQueue_dequeue(CQState))
    /\ UNCHANGED <<conversion_tasks, conv_pc, conv_job>>
    /\ UNCHANGED <<jqvars, dlvars, sidevars>>

CQMarkActive(c) ==
    /\ ZFind(conv_queue, c) # {}
    /\ SetCQ(ConversionQueue_mark_active(CQState, c))
    /\ UNCHANGED <<conversion_tasks, conv_pc, conv_job>>
    /\ UNCHANGED <<jqvars, dlvars, sidevars>>

CQMarkCompleted(c) ==
    /\ ZFind(conv_active, c) # {}
    /\ SetCQ(ConversionQueue_mark_completed(CQState, c))
    /\ UNCHANGED <<conversion_tasks, conv_pc, conv_job>>
    /\ UNCHANGED <<jqvars, dlvars, sidevars>>

CQMarkFailed(c, should_retry) ==
    /\ ZFind(IF conv_active # {} THEN conv_active ELSE conv_queue, c) # {}
    /\ SetCQ(ConversionQueue_mark_failed(CQState, c, should_retry))
    /\ UNCHANGED <<conversion_tasks, conv_pc, conv_job>>
    /\ UNCHANGED <<jqvars, dlvars, sidevars>>

NextCQ ==
    \/ \E c \in QueueIds, p \in ConvPriorities : CQEnqueue(c, p)
    \/ CQDequeue
    \/ \E c \in QueueIds : CQMarkActive(c)
    \/ \E c \in QueueIds : CQMarkCompleted(c)
    \/ \E c \in QueueIds, r \in BOOLEAN : CQMarkFailed(c, r)

\* the ConversionQueueManager object driven through its public methods
SpecCQ == Init /\ [][NextCQ]_vars

\* ------------------------------------------------------------ rate limiter
\* the decision of core/auth/security.py: reject when the count after the
\* increment is greater than the limit
RateLimitExceeded(current) == current > RATE_LIMIT_PER_MINUTE

\* the decision of RedisManager.check_rate_limit: reject when the count read is
\* already at the limit (count = 0 stands for "no key")
RateLimitReached(count) == count # 0 /\ count >= RATE_LIMIT_PER_MINUTE

\* what a request gets when a Redis command of its check raises: core/auth/security.py
\* and core/security.py catch the exception and let the request pass,
\* rate_limiter.py lets the exception propagate
OnStoreError(impl) == IF impl = "legacy" THEN "error" ELSE "admitted"

\* one request's check ends with result res
RLDone(r, res) ==
    /\ rl_pc' = [rl_pc EXCEPT ![r] = "done"]
    /\ rl_result' = [rl_result EXCEPT ![r] = res]

\* a Redis command of request r raised
RLStoreError(r) ==
    /\ rl_fault' = [rl_fault EXCEPT ![r] = TRUE]
    /\ RLDone(r, OnStoreError(rl_impl))

\* core/auth/security.py lines 56-61: INCR through increment_stat
RLIncr(r, ok) ==
    /\ rl_impl = "auth"
    /\ rl_pc[r] = "new"
    /\ Env(ok)
    /\ IF ok
       THEN /\ rl_count' = rl_count + 1
            /\ rl_seen' = [rl_seen EXCEPT ![r] = rl_count + 1]
            /\ IF rl_count + 1 = 1
               THEN /\ rl_pc' = [rl_pc EXCEPT ![r] = "expire"]
                    /\ UNCHANGED rl_result
               ELSE RLDone(r, IF RateLimitExceeded(rl_count + 1) THEN "rejected" ELSE "admitted")
            /\ UNCHANGED rl_fault
       ELSE /\ RLStoreError(r)
            /\ UNCHANGED <<rl_count, rl_seen>>
    /\ UNCHANGED <<rl_impl, rl_ttl, rl_rolled>>
    /\ UNCHANGED <<jqvars, dlstate, cvvars, beside_rl>>

\* core/auth/security.py lines 63-71: EXPIRE key 60 after the first increment,
\* then the comparison with the limit
RLExpire(r, ok) ==
    /\ rl_pc[r] = "expire"
    /\ Env(ok)
    /\ IF ok
       THEN /\ rl_ttl' = TRUE
            /\ RLDone(r, IF RateLimitExceeded(rl_seen[r]) THEN "rejected" ELSE "admitted")
            /\ UNCHANGED rl_fault
       ELSE /\ RLStoreError(r)
            /\ UNCHANGED rl_ttl
    /\ UNCHANGED <<rl_impl, rl_count, rl_rolled, rl_seen>>
    /\ UNCHANGED <<jqvars, dlstate, cvvars, beside_rl>>

\* RedisManager.check_rate_limit lines 25-32: GET, and the rejection when the
\* count read is at the limit
RLGet(r, ok) ==
    /\ rl_impl \in {"core", "legacy"}
    /\ rl_pc[r] = "new"
    /\ Env(ok)
    /\ IF ok
       THEN /\ rl_seen' = [rl_seen EXCEPT ![r] = rl_count]
            /\ IF RateLimitReached(rl_count)
               THEN RLDone(r, "rejected")
               ELSE /\ rl_pc' = [rl_pc EXCEPT ![r] = "write"]
                    /\ UNCHANGED rl_result
            /\ UNCHANGED rl_fault
       ELSE /\ RLStoreError(r)
            /\ UNCHANGED rl_seen
    /\ UNCHANGED <<rl_impl, rl_count, rl_ttl, rl_rolled>>
    /\ UNCHANGED <<jqvars, dlstate, cvvars, beside_rl>>

\* RedisManager.check_rate_limit lines 27-35: SETEX key 60 1 when no key was
\* read, INCR otherwise (INCR on an absent key creates it without an expiry)
RLWrite(r, ok) ==
    /\ rl_pc[r] = "write"
    /\ Env(ok)
    /\ IF ok
       THEN /\ IF rl_seen[r] = 0
               THEN rl_count' = 1 /\ rl_ttl' = TRUE
               ELSE rl_count' = rl_count + 1 /\ UNCHANGED rl_ttl
            /\ RLDone(r, "admitted")
            /\ UNCHANGED rl_fault
       ELSE /\ RLStoreError(r)
            /\ UNCHANGED <<rl_count, rl_ttl>>
    /\ UNCHANGED <<rl_impl, rl_rolled, rl_seen>>
    /\ UNCHANGED <<jqvars, dlstate, cvvars, beside_rl>>

\* Redis drops the key when its expiry is reached
RLWindowRoll ==
    /\ rl_count > 0
    /\ rl_ttl
    /\ rl_count' = 0
    /\ rl_ttl' = FALSE
    /\ rl_rolled' = TRUE
    /\ UNCHANGED <<rl_impl, rl_pc, rl_seen, rl_fault, rl_result>>
    /\ UNCHANGED <<jqvars, dlvars, cvvars, beside_rl>>

NextRL ==
    \/ \E r \in Requests, ok \in BOOLEAN : RLIncr(r, ok)
    \/ \E r \in Requests, ok \in BOOLEAN : RLExpire(r, ok)
    \/ \E r \in Requests, ok \in BOOLEAN : RLGet(r, ok)
    \/ \E r \in Requests, ok \in BOOLEAN : RLWrite(r, ok)
    \/ RLWindowRoll

\* one client's requests against each implementation of the rate limiter
InitLimiter ==
    /\ InitJQ /\ InitDL /\ InitCV /\ InitEV /\ InitCB /\ InitTS /\ InitUP /\ InitPT /\ InitRT("database", FALSE) /\ InitFC /\ InitWS /\ InitCC /\ InitLK
    /\ InitSV(<<<<"a">>>>, [status |-> "pending", file_path |-> <<>>], FALSE)
    /\ \E impl \in RLImpls : InitRL(impl)

SpecRL == InitLimiter /\ [][NextRL]_vars

\* ------------------------------------------------------------- event ring
\* Python's events[-n:] for n > 0: the last n entries, all of them when there
\* are fewer
KeepLast_all(events, n) == events

KeepLast(events, n) ==
    IF Len(events) <= n THEN events
    ELSE SubSeq(events, Len(events) - n + 1, Len(events))

\* ProgressTracker._record_event lines 341-348: the event is built and the
\* stored list is read (a missing key reads as the empty list); ok = FALSE:
\* the read raises, the call logs the error and returns False
RecordEventGet(ok) ==
    /\ ev_pc = "idle"
    /\ ev_next < MaxEvents
    /\ IF ok
       THEN ev_read' = ev_ring /\ ev_pc' = "read"
       ELSE UNCHANGED <<ev_read, ev_pc>>
    /\ UNCHANGED <<ev_ring, ev_log, ev_next>>
    /\ UNCHANGED <<jqvars, dlvars, cvvars, beside_ev>>

\* _record_event lines 349-360: append, keep the last 100, store; ok = FALSE:
\* the write raises and the call returns False
RecordEventSet(ok) ==
    /\ ev_pc = "read"
    /\ IF ok
       THEN /\ ev_ring' = KeepLast(Append(ev_read, ev_next + 1), EVENT_LIMIT)
            /\ ev_log' = Append(ev_log, ev_next + 1)
            /\ ev_next' = ev_next + 1
       ELSE UNCHANGED <<ev_ring, ev_log, ev_next>>
    /\ ev_pc' = "idle"
    /\ ev_read' = <<>>
    /\ UNCHANGED <<jqvars, dlvars, cvvars, beside_ev>>

\* ProgressTracker.cleanup_progress: the key is deleted.  cleanup_old_tasks
\* calls it for tasks whose row has been terminal for the retention period,
\* when no _record_event call for the task is in progress.
CleanupProgress ==
    /\ ev_pc = "idle"
    /\ ev_ring # <<>>
    /\ ev_ring' = <<>>
    /\ ev_log' = <<>>
    /\ UNCHANGED <<ev_next, ev_pc, ev_read>>
    /\ UNCHANGED <<jqvars, dlvars, cvvars, beside_ev>>

NextEV ==
    \/ \E ok \in BOOLEAN : RecordEventGet(ok)
    \/ \E ok \in BOOLEAN : RecordEventSet(ok)
    \/ CleanupProgress

\* the events recorded for one task
SpecEV == Init /\ [][NextEV]_vars

\* ------------------------------------------------------ download endpoint
\* A resolved path is the sequence of its components below the root, and a
\* component is a sequence of characters.
Names == UNION {[1..n -> Chars] : n \in 1..MaxNameLen}

Dirs == UNION {[1..n -> Names] : n \in 1..MaxDepth}

\* str(path): each component behind a "/"
RECURSIVE PathStr(_)
PathStr(path) ==
    IF path = <<>> THEN <<>>
    ELSE <<"/">> \o Head(path) \o PathStr(Tail(path))

\* Python's s.startswith(prefix)
startswith(str, prefix) ==
    /\ Len(prefix) <= Len(str)
    /\ SubSeq(str, 1, Len(prefix)) = prefix

\* the "security check" of download_file (endpoints.py lines 180-185,
\* app/main.py lines 304-309): a comparison of the two paths as strings
PathCheck(file_path, dir) ==
    startswith(PathStr(file_path), PathStr(dir))

\* download_file, endpoints.py lines 164-205 and app/main.py lines 291-327:
\* the answer to a request for the file of row
DownloadFileAnswer(row, exists, dir) ==
    IF row.status # "completed" THEN "invalid_state"
    ELSE IF row.file_path = <<>> \/ ~exists THEN "not_found"
    ELSE IF ~PathCheck(row.file_path, dir) THEN "path_traversal"
    ELSE "served"

DownloadFile ==
    /\ sv_result = "none"
    /\ sv_result' = DownloadFileAnswer(sv_row, sv_exists, sv_dir)
    /\ UNCHANGED <<sv_dir, sv_row, sv_exists>>
    /\ UNCHANGED <<jqvars, dlvars, cvvars, beside_sv>>

NextServe == DownloadFile

\* the rows the table can hold: download stores str(download_dir / name) with
\* the DOWNLOAD_DIR of the server that ran the download (download_service.py
\* lines 27, 314 and 386-389), and the table outlives that server, so the
\* server that answers the request may be configured with another directory
InitServe ==
    /\ InitJQ /\ InitDL /\ InitCV /\ InitRL("auth") /\ InitEV /\ InitCB /\ InitTS /\ InitUP /\ InitPT /\ InitRT("database", FALSE) /\ InitFC /\ InitWS /\ InitCC /\ InitLK
    /\ \E dir \in Dirs, wrote \in Dirs, name \in Names,
          status \in {"completed", "pending"}, exists \in BOOLEAN :
          InitSV(dir,
                 [status |-> status,
                  file_path |-> IF status = "completed" THEN Append(wrote, name) ELSE <<>>],
                 exists)

SpecServe == InitServe /\ [][NextServe]_vars

\* ----------------------------------------------- events recorded concurrently
\* ProgressTracker is one object shared by every coroutine; its methods
\* (update_progress, mark_processing, mark_completed, mark_failed,
\* mark_cancelled) each end in _record_event for the task they are given.

\* _record_event lines 341-345: the event is built with the time of the call
RecordEventStamp(c) ==
    /\ ts_pc[c] = "idle"
    /\ ts_clock < MaxStamps
    /\ ts_clock' = ts_clock + 1
    /\ ts_stamp' = [ts_stamp EXCEPT ![c] = ts_clock + 1]
    /\ ts_pc' = [ts_pc EXCEPT ![c] = "get"]
    /\ UNCHANGED <<ts_events, ts_read>>
    /\ UNCHANGED <<jqvars, dlvars, cvvars, beside_ts>>

\* _record_event lines 347-348: await redis_manager.get; ok = FALSE: the read
\* raises, the call logs the error and returns False
RecordEventRead(c, ok) ==
    /\ ts_pc[c] = "get"
    /\ IF ok
       THEN /\ ts_read' = [ts_read EXCEPT ![c] = ts_events]
            /\ ts_pc' = [ts_pc EXCEPT ![c] = "set"]
       ELSE /\ ts_pc' = [ts_pc EXCEPT ![c] = "idle"]
            /\ UNCHANGED ts_read
    /\ UNCHANGED <<ts_clock, ts_events, ts_stamp>>
    /\ UNCHANGED <<jqvars, dlvars, cvvars, beside_ts>>

\* _record_event lines 349-360: append, keep the last 100, await
\* redis_manager.set; ok = FALSE: the write raises and the call returns False
RecordEventWrite(c, ok) ==
    /\ ts_pc[c] = "set"
    /\ IF ok
       THEN ts_events' = KeepLast(Append(ts_read[c], ts_stamp[c]), EVENT_LIMIT)
       ELSE UNCHANGED ts_events
    /\ ts_pc' = [ts_pc EXCEPT ![c] = "idle"]
    /\ ts_read' = [ts_read EXCEPT ![c] = <<>>]
    /\ UNCHANGED <<ts_clock, ts_stamp>>
    /\ UNCHANGED <<jqvars, dlvars, cvvars, beside_ts>>

NextTS ==
    \/ \E c \in Recorders : RecordEventStamp(c)
    \/ \E c \in Recorders, ok \in BOOLEAN : RecordEventRead(c, ok)
    \/ \E c \in Recorders, ok \in BOOLEAN : RecordEventWrite(c, ok)

\* the events of one task recorded by coroutines running at the same time
SpecTS == Init /\ [][NextTS]_vars

\* --------------------------------------------------------- progress updates
\* update_progress line 130: max(0.0, min(100.0, progress))
Clamp(progress) == IF progress < 0 THEN 0 ELSE IF progress > 100 THEN 100 ELSE progress

\* update_progress line 154: the test that decides whether an event is recorded
EmitsEvent(progress) == progress % 10 = 0 \/ progress = 100

\* ProgressTracker.update_progress for one tick of the subprocess, whose
\* progress does not go back; ok = FALSE: a store command raises before the
\* event is stored, the call returns False
UpdateProgress(progress, ok) ==
    /\ up_ticks < MaxTicks
    /\ Clamp(progress) >= up_progress
    /\ up_ticks' = up_ticks + 1
    /\ IF ok
       THEN /\ up_progress' = Clamp(progress)
            /\ up_events' = IF EmitsEvent(Clamp(progress)) THEN up_events + 1 ELSE up_events
       ELSE UNCHANGED <<up_progress, up_events>>
    /\ UNCHANGED <<jqvars, dlvars, cvvars, beside_up>>

NextUP ==
    \E progress \in ProgressInputs, ok \in BOOLEAN : UpdateProgress(progress, ok)

\* the progress ticks of one task
SpecUP == Init /\ [][NextUP]_vars

\* ------------------------------------------------------------ retry policies
\* DatabaseRetryPolicy.retryable_errors (database_resilience.py lines 37-41)
retryable_errors == {"OperationalError", "DisconnectionError", "SQLTimeoutError"}

\* the exceptions an operation run under each policy can raise
Raisable(policy) ==
    IF policy = "database" THEN retryable_errors \cup {"IntegrityError", "Exception"}
    ELSE {"ConnectionError", "TimeoutError", "ResponseError"}

\* whether the policy goes on after exception e: the except clauses of
\* DatabaseRetryPolicy.retry (lines 53-73), and except Exception of
\* RedisRetryPolicy.execute_with_async_retry (line 81)
Retryable(policy, e) == IF policy = "database" THEN e \in retryable_errors ELSE TRUE

\* max_delay of the policy
MaxDelay(policy) == IF policy = "database" THEN DB_MAX_DELAY ELSE REDIS_MAX_DELAY

\* delay = min(delay * backoff_factor, max_delay)
NextDelay(policy, delay) ==
    IF delay * BACKOFF_FACTOR < MaxDelay(policy) THEN delay * BACKOFF_FACTOR
    ELSE MaxDelay(policy)

\* one pass of the loop in which the operation returns
RetryOperationReturns ==
    /\ rt_result = "running"
    /\ rt_result' = "returned"
    /\ UNCHANGED <<rt_policy, rt_in_loop, rt_attempt, rt_delay, rt_errors, rt_slept>>
    /\ UNCHANGED <<jqvars, dlvars, cvvars, beside_rt>>

\* one pass of the loop in which the operation raises e.  The database policy
\* re-raises what it does not retry and the last retryable error; its sleep is
\* asyncio.run(asyncio.sleep(delay)), which raises RuntimeError when an event
\* loop is running.  The redis policy returns None after the last attempt.
RetryOperationRaises(e) ==
    /\ rt_result = "running"
    /\ e \in Raisable(rt_policy)
    /\ rt_errors' = Append(rt_errors, e)
    /\ IF ~Retryable(rt_policy, e)
       THEN /\ rt_result' = "raised"
            /\ UNCHANGED <<rt_attempt, rt_delay, rt_slept>>
       ELSE IF rt_attempt = POLICY_MAX_RETRIES
       THEN /\ rt_result' = IF rt_policy = "database" THEN "raised" ELSE "none"
            /\ UNCHANGED <<rt_attempt, rt_delay, rt_slept>>
       ELSE IF rt_policy = "database" /\ rt_in_loop
       THEN /\ rt_result' = "raised"
            /\ UNCHANGED <<rt_attempt, rt_delay, rt_slept>>
       ELSE /\ rt_slept' = Append(rt_slept, rt_delay)
            /\ rt_delay' = NextDelay(rt_policy, rt_delay)
            /\ rt_attempt' = rt_attempt + 1
            /\ UNCHANGED rt_result
    /\ UNCHANGED <<rt_policy, rt_in_loop>>
    /\ UNCHANGED <<jqvars, dlvars, cvvars, beside_rt>>

NextRT ==
    \/ RetryOperationReturns
    \/ \E e \in Raisable("database") \cup Raisable("redis") : RetryOperationRaises(e)

\* one store operation run under each retry policy
InitRetry ==
    /\ InitJQ /\ InitDL /\ InitCV /\ InitRL("auth") /\ InitEV /\ InitCB /\ InitTS /\ InitUP /\ InitPT /\ InitFC /\ InitWS /\ InitCC /\ InitLK
    /\ InitSV(<<<<"a">>>>, [status |-> "pending", file_path |-> <<>>], FALSE)
    /\ \E policy \in {"database", "redis"}, in_loop \in BOOLEAN : InitRT(policy, in_loop)

SpecRT == InitRetry /\ [][NextRT]_vars

\* ------------------------------------------------------------ fallback cache
\* A dict is a sequence of entries in insertion order; assigning to a key that
\* is present keeps its place.
DictKeys(d) == {d[i].key : i \in 1..Len(d)}

DictGet(d, key) == (CHOOSE i \in 1..Len(d) : d[i].key = key)

DictDel(d, key) == SelectSeq(d, LAMBDA e : e.key # key)

DictSet(d, key, at) ==
    IF key \in DictKeys(d)
    THEN [i \in 1..Len(d) |-> IF d[i].key = key THEN [key |-> key, at |-> at] ELSE d[i]]
    ELSE Append(d, [key |-> key, at |-> at])

\* min(self.expiry, key=self.expiry.get): the first key, in dict order, among
\* those with the earliest expiry time
OldestKey(d) ==
    d[CHOOSE i \in 1..Len(d) :
         /\ \A k \in 1..Len(d) : d[i].at <= d[k].at
         /\ \A k \in 1..(i - 1) : d[k].at > d[i].at].key

\* RedisFallbackCache.set lines 113-123: the expiry dict after the call
FallbackCache_set(d, key, ttl, now) ==
    LET d1 == IF Len(d) >= FallbackMaxItems THEN DictDel(d, OldestKey(d)) ELSE d
    IN  DictSet(d1, key, now + ttl)

\* RedisFallbackCache.get line 136: the entry of key has expired
Expired(d, key, now) == now > d[DictGet(d, key)].at

\* the keys in use order after key was used and only the keys in keep remain
Used(recent, key, keep) ==
    Append(SelectSeq(recent, LAMBDA k : k # key /\ k \in keep), key)

FCSet(key, ttl) ==
    /\ fc_expiry' = FallbackCache_set(fc_expiry, key, ttl, fc_now)
    /\ fc_recent' = Used(fc_recent, key, DictKeys(fc_expiry'))
    /\ UNCHANGED <<fc_now, fc_result>>
    /\ UNCHANGED <<jqvars, dlvars, cvvars, beside_fc>>

\* RedisFallbackCache.get lines 131-141
FCGet(key) ==
    /\ IF key \notin DictKeys(fc_expiry)
       THEN /\ fc_result' = "miss"
            /\ UNCHANGED <<fc_expiry, fc_recent>>
       ELSE IF Expired(fc_expiry, key, fc_now)
       THEN /\ fc_result' = "miss"
            /\ fc_expiry' = DictDel(fc_expiry, key)
            /\ fc_recent' = SelectSeq(fc_recent, LAMBDA k : k # key)
       ELSE /\ fc_result' = "hit"
            /\ fc_recent' = Used(fc_recent, key, DictKeys(fc_expiry))
            /\ UNCHANGED fc_expiry
    /\ UNCHANGED fc_now
    /\ UNCHANGED <<jqvars, dlvars, cvvars, beside_fc>>

\* a second passes
FCTick ==
    /\ fc_now < MaxNow
    /\ fc_now' = fc_now + 1
    /\ UNCHANGED <<fc_expiry, fc_recent, fc_result>>
    /\ UNCHANGED <<jqvars, dlvars, cvvars, beside_fc>>

NextFC ==
    \/ \E key \in CacheKeys, ttl \in CacheTTLs : FCSet(key, ttl)
    \/ \E key \in CacheKeys : FCGet(key)
    \/ FCTick

\* the fallback cache driven through set and get
SpecFC == Init /\ [][NextFC]_vars

\* --------------------------------------------------------- worker supervisor
\* WorkerSupervisor.start_worker lines 70-84: a task running
\* _run_worker_with_recovery is created (error_count starts at 0)
WSStartWorker ==
    /\ ws_task # "running"
    /\ ws_task' = "running"
    /\ ws_errors' = 0
    /\ ws_hung' = FALSE
    /\ UNCHANGED <<ws_heartbeat, ws_alive, ws_restarts, ws_job, ws_child>>
    /\ UNCHANGED <<jqvars, dlvars, cvvars, beside_ws>>

\* WorkerSupervisor.record_heartbeat, called by a worker that is making progress
WSRecordHeartbeat ==
    /\ ws_task = "running" /\ ~ws_hung
    /\ ws_heartbeat # "fresh"
    /\ ws_heartbeat' = "fresh"
    /\ UNCHANGED <<ws_task, ws_hung, ws_errors, ws_alive, ws_restarts, ws_job, ws_child>>
    /\ UNCHANGED <<jqvars, dlvars, cvvars, beside_ws>>

\* heartbeat_timeout (30 s) passes without a heartbeat
WSHeartbeatAges ==
    /\ ws_heartbeat = "fresh"
    /\ ws_heartbeat' = "stale"
    /\ UNCHANGED <<ws_task, ws_hung, ws_errors, ws_alive, ws_restarts, ws_job, ws_child>>
    /\ UNCHANGED <<jqvars, dlvars, cvvars, beside_ws>>

\* process_func takes a job and starts its child process
WSTakeJob ==
    /\ ws_task = "running" /\ ~ws_hung
    /\ ws_job = "none"
    /\ ws_job' = "held"
    /\ ws_child' = "running"
    /\ UNCHANGED <<ws_task, ws_heartbeat, ws_hung, ws_errors, ws_alive, ws_restarts>>
    /\ UNCHANGED <<jqvars, dlvars, cvvars, beside_ws>>

\* the child process ends and the worker is done with the job
WSJobDone ==
    /\ ws_task = "running" /\ ~ws_hung
    /\ ws_child = "running"
    /\ ws_job' = "none"
    /\ ws_child' = "none"
    /\ UNCHANGED <<ws_task, ws_heartbeat, ws_hung, ws_errors, ws_alive, ws_restarts>>
    /\ UNCHANGED <<jqvars, dlvars, cvvars, beside_ws>>

\* process_func blocks for good
WSHang ==
    /\ ws_task = "running" /\ ~ws_hung
    /\ ws_hung' = TRUE
    /\ UNCHANGED <<ws_task, ws_heartbeat, ws_errors, ws_alive, ws_restarts, ws_job, ws_child>>
    /\ UNCHANGED <<jqvars, dlvars, cvvars, beside_ws>>

\* _run_worker_with_recovery lines 111-127: process_func raises; after
\* max_consecutive_errors the loop is left and the task is done
WSWorkerError ==
    /\ ws_task = "running" /\ ~ws_hung
    /\ ws_errors' = ws_errors + 1
    /\ ws_task' = IF ws_errors + 1 >= MAX_CONSECUTIVE_ERRORS THEN "done" ELSE "running"
    /\ UNCHANGED <<ws_heartbeat, ws_hung, ws_alive, ws_restarts, ws_job, ws_child>>
    /\ UNCHANGED <<jqvars, dlvars, cvvars, beside_ws>>

\* _run_worker_with_recovery lines 102-105: process_func returns
WSWorkerReturns ==
    /\ ws_task = "running" /\ ~ws_hung
    /\ ws_errors > 0
    /\ ws_errors' = 0
    /\ UNCHANGED <<ws_task, ws_heartbeat, ws_hung, ws_alive, ws_restarts, ws_job, ws_child>>
    /\ UNCHANGED <<jqvars, dlvars, cvvars, beside_ws>>

\* WorkerSupervisor.check_worker_health lines 205-215: the value of is_alive
IsAlive == ws_task = "running" /\ ws_heartbeat # "stale"

\* check_worker_health: a WorkerHealth is built and returned; nothing else is
\* done
WSCheckHealth ==
    /\ ws_task # "none"
    /\ ws_alive' = IF IsAlive THEN "yes" ELSE "no"
    /\ UNCHANGED <<ws_task, ws_heartbeat, ws_hung, ws_errors, ws_restarts, ws_job, ws_child>>
    /\ UNCHANGED <<jqvars, dlvars, cvvars, beside_ws>>

\* WorkerSupervisor.restart_worker lines 157-173, called by whoever holds the
\* supervisor: stop_worker cancels the task, restart_count is incremented,
\* start_worker creates a new task.  The supervisor knows neither the job nor
\* the child process of the worker, and last_heartbeat is not reset.
WSRestartWorker ==
    /\ ws_task # "none"
    /\ ws_restarts < MaxRestarts
    /\ ws_restarts' = ws_restarts + 1
    /\ ws_task' = "running"
    /\ ws_errors' = 0
    /\ ws_hung' = FALSE
    /\ UNCHANGED <<ws_heartbeat, ws_alive, ws_job, ws_child>>
    /\ UNCHANGED <<jqvars, dlvars, cvvars, beside_ws>>

NextWS ==
    \/ WSStartWorker
    \/ WSRecordHeartbeat
    \/ WSHeartbeatAges
    \/ WSTakeJob
    \/ WSJobDone
    \/ WSHang
    \/ WSWorkerError
    \/ WSWorkerReturns
    \/ WSCheckHealth
    \/ WSRestartWorker

\* one supervised worker
SpecWS == Init /\ [][NextWS]_vars

\* the same with a liveness loop that keeps checking the worker's health while
\* time passes
SpecWSLive == SpecWS /\ WF_vars(WSCheckHealth) /\ WF_vars(WSHeartbeatAges)

\* ------------------------------------------ cancelling a conversion task
\* ConversionQueueManager.mark_cancelled: the sorted set the task is looked up
\* in is conversion:active, or conversion:queue when conversion:active is empty
CancelItems(cq) == IF cq.active # {} THEN cq.active ELSE cq.queue

\* ConversionQueueManager.mark_cancelled, its effect on queue and active set
ConversionQueue_mark_cancelled(cq, task_id) ==
    IF ZFind(CancelItems(cq), task_id) = {} THEN cq
    ELSE LET e == (CHOOSE x \in ZFind(CancelItems(cq), task_id) : TRUE).entry
         IN  [WithQueue(cq, ZRem(cq.queue, e), task_id) EXCEPT !.active = ZRem(@, e)]

\* ConversionQueueManager.mark_cancelled, its effect on conversion:cancelled
CancelledAfter(cq, cancelled, task_id) ==
    IF ZFind(CancelItems(cq), task_id) = {} THEN cancelled
    ELSE LET e == (CHOOSE x \in ZFind(CancelItems(cq), task_id) : TRUE).entry
         IN  ZAdd(cancelled, [e EXCEPT !.status = "cancelled"], 0)

\* cancel_conversion_task from the commit on: status CANCELLED, mark_cancelled
CancelCommitted(c) ==
    /\ conversion_tasks' = [conversion_tasks EXCEPT ![c] = "cancelled"]
    /\ SetCQ(ConversionQueue_mark_cancelled(CQState, c))
    /\ conv_cancelled' = CancelledAfter(CQState, conv_cancelled, c)

\* cancel_conversion_task for a task without encoder process: cancel_task
\* returns False at once and the handler runs to its end
ConvCancel(c) ==
    /\ conversion_tasks[c] \notin {"none", "completed"}
    /\ conv_pc[c] # "run"
    /\ c \notin conv_cancelling
    /\ CancelCommitted(c)
    /\ UNCHANGED <<conv_pc, conv_job, conv_cancelling>>
    /\ UNCHANGED <<jqvars, dlvars, beside_cc>>

\* cancel_conversion_task up to cancel_task's wait: the encoder process of the
\* task is terminated and the handler waits for its exit
ConvCancelTerminate(c) ==
    /\ conversion_tasks[c] \notin {"none", "completed"}
    /\ conv_pc[c] = "run"
    /\ c \notin conv_cancelling
    /\ conv_cancelling' = conv_cancelling \cup {c}
    /\ UNCHANGED <<cvvars, conv_cancelled>>
    /\ UNCHANGED <<jqvars, dlvars, beside_cc>>

\* cancel_conversion_task after cancel_task: the wait ended (exit, or kill
\* after 5 s); the worker's coroutine of the task may have run in between
ConvCancelCommit(c) ==
    /\ c \in conv_cancelling
    /\ CancelCommitted(c)
    /\ conv_cancelling' = conv_cancelling \ {c}
    /\ UNCHANGED <<conv_pc, conv_job>>
    /\ UNCHANGED <<jqvars, dlvars, beside_cc>>

NextCC ==
    \/ \E c \in CancelConvTasks, p \in ConvPriorities : ConvCreate(c, p)
    \/ ConvProcessQueue
    \/ \E c \in CancelConvTasks : ConvStart(c)
    \/ \E c \in CancelConvTasks, ok \in BOOLEAN : ConvFinish(c, ok)
    \/ \E c \in CancelConvTasks : ConvSettle(c)
    \/ \E c \in CancelConvTasks : ConvCancel(c)
    \/ \E c \in CancelConvTasks : ConvCancelTerminate(c)
    \/ \E c \in CancelConvTasks : ConvCancelCommit(c)

InitCancel == InitJQ /\ InitDL /\ InitConv(CancelConvTasks) /\ InitSide

\* the conversion worker and the cancel endpoint, NumCancelConv tasks
SpecCC == InitCancel /\ [][NextCC]_vars

\* ------------------------------------------------------------ resource lock
\* Redis holds the key lock:<resource> until its expiry
KeyExists == lock_expiry # 0 /\ lock_expiry > lock_now

\* caller c was granted the lock, has not released it, and its grant has not expired
Holds(c) == lock_grant[c] # 0 /\ lock_grant[c] > lock_now

\* QueueDeadlockPrevention.acquire_lock: SET lock:<resource> NX EX timeout
AcquireLock(c) ==
    /\ lock_grant[c] = 0
    /\ IF ~KeyExists
       THEN /\ lock_expiry' = lock_now + LOCK_TIMEOUT_SECONDS
            /\ lock_owner' = c
            /\ active_locks' = lock_now + LOCK_TIMEOUT_SECONDS
            /\ lock_grant' = [lock_grant EXCEPT ![c] = lock_now + LOCK_TIMEOUT_SECONDS]
            /\ lock_result' = "acquired"
       ELSE /\ lock_result' = "refused"
            /\ UNCHANGED <<lock_expiry, lock_owner, active_locks, lock_grant>>
    /\ UNCHANGED lock_now
    /\ UNCHANGED <<jqvars, dlvars, cvvars, beside_lk>>

\* QueueDeadlockPrevention.release_lock: DEL lock:<resource>, whoever set the key
ReleaseLock(c) ==
    /\ lock_grant[c] # 0
    /\ lock_expiry' = 0
    /\ lock_owner' = 0
    /\ active_locks' = 0
    /\ lock_grant' = [lock_grant EXCEPT ![c] = 0]
    /\ lock_result' = IF KeyExists THEN "released" ELSE "absent"
    /\ UNCHANGED lock_now
    /\ UNCHANGED <<jqvars, dlvars, cvvars, beside_lk>>

\* time passes; Redis drops the key at its expiry
LockTick ==
    /\ lock_now < MaxLockNow
    /\ lock_now' = lock_now + TickSeconds
    /\ UNCHANGED <<lock_expiry, lock_owner, active_locks, lock_grant, lock_result>>
    /\ UNCHANGED <<jqvars, dlvars, cvvars, beside_lk>>

NextLK ==
    \/ \E c \in Callers : AcquireLock(c)
    \/ \E c \in Callers : ReleaseLock(c)
    \/ LockTick

\* the lock of one resource used by NumCallers callers
SpecLK == Init /\ [][NextLK]_vars

\* --------------------------------------------------------- circuit breaker
\* The breaker as one record, so that the three methods can be applied to it.
Breaker == [state |-> cb_state, failure_count |-> cb_failure_count, elapsed |-> cb_elapsed]

\* CircuitBreaker.is_open (circuit_breaker.py lines 39-56; can_execute of
\* concurrency_control.py lines 195-216 is its negation): the breaker after the
\* call
CircuitBreaker_after_is_open(b) ==
    IF b.state = "open" /\ b.elapsed
    THEN [b EXCEPT !.state = "half_open", !.failure_count = 0]
    ELSE b

\* the value is_open returns
CircuitBreaker_is_open(b) == b.state = "open" /\ ~b.elapsed

\* CircuitBreaker.record_success
CircuitBreaker_record_success(b) ==
    IF b.state = "half_open" THEN [b EXCEPT !.state = "closed", !.failure_count = 0]
    ELSE IF b.state = "closed"
         THEN [b EXCEPT !.failure_count = IF @ > 0 THEN @ - 1 ELSE 0]
         ELSE b

\* CircuitBreaker.record_failure: opened_at is set when the breaker opens
CircuitBreaker_record_failure(b) ==
    LET n == b.failure_count + 1
    IN  IF n >= FAILURE_THRESHOLD /\ b.state # "open"
        THEN [b EXCEPT !.failure_count = n, !.state = "open", !.elapsed = FALSE]
        ELSE [b EXCEPT !.failure_count = n]

SetBreaker(b) ==
    /\ cb_state' = b.state
    /\ cb_failure_count' = b.failure_count
    /\ cb_elapsed' = b.elapsed

\* async_wrapper lines 131-137: the test of is_open, then the wrapped function
\* is awaited; a call that finds the breaker open is rejected with RuntimeError
CBCall ==
    /\ cb_calls < MaxCalls
    /\ cb_calls' = cb_calls + 1
    /\ SetBreaker(CircuitBreaker_after_is_open(Breaker))
    /\ IF CircuitBreaker_is_open(Breaker)
       THEN UNCHANGED <<cb_inflight, cb_probes>>
       ELSE /\ cb_inflight' = cb_inflight + 1
            /\ cb_probes' = IF cb_state = "closed" THEN cb_probes ELSE cb_probes + 1
    /\ UNCHANGED cb_streak
    /\ UNCHANGED <<jqvars, dlvars, cvvars, beside_cb>>

\* async_wrapper lines 138-139: a call returns and record_success runs;
\* probe: the call was let through while the breaker was half-open
CBSuccess(probe) ==
    /\ IF probe THEN cb_probes > 0 ELSE cb_inflight > cb_probes
    /\ cb_inflight' = cb_inflight - 1
    /\ cb_probes' = IF probe THEN cb_probes - 1 ELSE cb_probes
    /\ SetBreaker(CircuitBreaker_record_success(Breaker))
    /\ cb_streak' = 0
    /\ UNCHANGED cb_calls
    /\ UNCHANGED <<jqvars, dlvars, cvvars, beside_cb>>

\* async_wrapper lines 140-142: a call raises and record_failure runs
CBFailure(probe) ==
    /\ IF probe THEN cb_probes > 0 ELSE cb_inflight > cb_probes
    /\ cb_inflight' = cb_inflight - 1
    /\ cb_probes' = IF probe THEN cb_probes - 1 ELSE cb_probes
    /\ SetBreaker(CircuitBreaker_record_failure(Breaker))
    /\ cb_streak' = cb_streak + 1
    /\ UNCHANGED cb_calls
    /\ UNCHANGED <<jqvars, dlvars, cvvars, beside_cb>>

\* recovery_timeout seconds have passed since the breaker opened
CBRecoveryTimeout ==
    /\ cb_state = "open"
    /\ ~cb_elapsed
    /\ cb_elapsed' = TRUE
    /\ UNCHANGED <<cb_state, cb_failure_count, cb_calls, cb_inflight, cb_probes, cb_streak>>
    /\ UNCHANGED <<jqvars, dlvars, cvvars, beside_cb>>

NextCB ==
    \/ CBCall
    \/ \E probe \in BOOLEAN : CBSuccess(probe)
    \/ \E probe \in BOOLEAN : CBFailure(probe)
    \/ CBRecoveryTimeout

\* the calls made through one circuit breaker
SpecCB == Init /\ [][NextCB]_vars

\* the download worker alone
Spec == Init /\ [][NextDL]_vars

\* the download worker and the conversion worker side by side, in an
\* environment that injects no fault
SpecAll == InitNoFaults /\ [][NextAll]_vars

\* the download worker without cancel requests
NextWorker ==
    \/ \E t \in Tasks : CreateDownload(t)
    \/ \E ok \in BOOLEAN : ProcessQueueTick(ok)
    \/ \E i, a \in BOOLEAN : ProcessQueueClaim(i, a)
    \/ \E t \in Tasks, db \in {"ok", "transient", "error"} : ExecuteDownloadStart(t, db)
    \/ \E t \in Tasks, ok \in BOOLEAN : DownloadSpawn(t, ok)
    \/ \E t \in Tasks, p \in ProgressTicks : DownloadProgress(t, p)
    \/ \E t \in Tasks, o \in Outcomes, s \in FileSizes : DownloadExit(t, o, s)
    \/ \E t \in Tasks, ok \in BOOLEAN : DownloadReturn(t, ok)
    \/ \E t \in Tasks, ok \in BOOLEAN : ExecuteDownloadFinally(t, ok)

\* the download worker in an environment that can fail every attempt of a job
SpecExhaust == InitExhaust /\ [][NextWorker]_vars

\* The scheduling the worker runs under: process_queue is a loop that comes
\* round every second for as long as the worker runs, every coroutine handed to
\* asyncio.create_task is run by the event loop, and a child process ends or is
\* killed when its timeout is reached.  Each step of the worker that stays
\* possible is therefore taken at some time.
WorkerFairness ==
    /\ WF_vars(\E ok \in BOOLEAN : ProcessQueueTick(ok))
    /\ WF_vars(\E i, a \in BOOLEAN : ProcessQueueClaim(i, a))
    /\ WF_vars(\E t \in Tasks, db \in {"ok", "transient", "error"} : ExecuteDownloadStart(t, db))
    /\ WF_vars(\E t \in Tasks, ok \in BOOLEAN : DownloadSpawn(t, ok))
    /\ WF_vars(\E t \in Tasks, o \in Outcomes, s \in FileSizes : DownloadExit(t, o, s))
    /\ WF_vars(\E t \in Tasks, ok \in BOOLEAN : DownloadReturn(t, ok))
    /\ WF_vars(\E t \in Tasks, ok \in BOOLEAN : ExecuteDownloadFinally(t, ok))

\* the download worker under that scheduling, in an environment that may
\* inject MaxFaults faults and is reliable afterwards
SpecLive == Init /\ [][NextWorker]_vars /\ WorkerFairness

\* the same in an environment that injects no fault
SpecLiveNoFaults == InitNoFaults /\ [][NextWorker]_vars /\ WorkerFairness

\* ------------------------------------------------ deletion and cleanup
\* no coroutine or request is working on task t
Quiet(t) ==
    /\ pc[t] = "none" /\ cleanup[t] = 0
    /\ pq_job # t
    /\ cancel_pc[t] # "wait"

\* what <task id>.* holds after the file the row names was looked for and
\* unlinked (endpoints.py lines 264-275, queue_worker.py lines 196-203): a row
\* without file_path leaves the directory alone; the path a row carries is the
\* output file download found, which lies in DOWNLOAD_DIR
FilesAfterUnlink(row, files, unlink_ok) ==
    IF row.file_path # NoPath /\ files = "output" /\ unlink_ok THEN "empty" ELSE files

\* endpoints.delete_task lines 246-287: whatever the status, the file named by
\* the row is unlinked (unlink_ok = FALSE: unlink raises, the error is logged)
\* and the row is deleted.  Deleting a task a coroutine is working on is left
\* out.
DeleteTask(t, unlink_ok) ==
    /\ download_tasks[t] # NoRow
    /\ Quiet(t)
    /\ download_dir' = [download_dir EXCEPT
                           ![t] = FilesAfterUnlink(download_tasks[t], @, unlink_ok)]
    /\ download_tasks' = [download_tasks EXCEPT ![t] = NoRow]
    /\ UNCHANGED <<jqvars, active_downloads, active_processes, proc, pc, cleanup, pq_job,
                   cancel_pc, faults_left>>
    /\ UNCHANGED <<cvvars, sidevars>>

\* the rows one sweep of cleanup_old_tasks selects: terminal status, and last
\* updated before the cutoff, so that nothing is working on them any more
OldTasks == {t \in Tasks : /\ download_tasks[t].status \in {"completed", "failed", "cancelled"}
                           /\ Quiet(t)}

\* OptimizedQueueWorker.cleanup_old_tasks lines 179-215, one sweep over the
\* rows in old: for each row its file is unlinked and the row is deleted; for
\* the rows in unlink_fails unlink raises, the error is logged and the row
\* stays.  Between the two, cleanup_progress deletes the snapshot of the task;
\* for the rows in progress_fails its delete raises, cleanup_progress logs the
\* error and returns False, which the sweep does not look at.
CleanupOldTasks(old, unlink_fails, progress_fails) ==
    /\ old # {}
    /\ old \subseteq OldTasks
    /\ progress_fails \subseteq {t \in old \ unlink_fails : progress_data[t] # NoProgress}
    /\ progress_data' = [t \in Tasks |->
                            IF t \in old \ (unlink_fails \cup progress_fails)
                            THEN ProgressTracker_cleanup_progress
                            ELSE progress_data[t]]
    /\ unlink_fails \subseteq {t \in old : download_tasks[t].file_path # NoPath
                                            /\ download_dir[t] = "output"}
    /\ download_dir' = [t \in Tasks |->
                           IF t \in old \ unlink_fails
                           THEN FilesAfterUnlink(download_tasks[t], download_dir[t], TRUE)
                           ELSE download_dir[t]]
    /\ download_tasks' = [t \in Tasks |->
                             IF t \in old \ unlink_fails THEN NoRow ELSE download_tasks[t]]
    /\ UNCHANGED <<jqvars, active_downloads, active_processes, proc, pc, cleanup, pq_job,
                   cancel_pc, faults_left>>
    /\ UNCHANGED <<cvvars, beside_pt, terminal_events>>

NextFiles ==
    \/ \E t \in Tasks : CreateDownload(t)
    \/ \E ok \in BOOLEAN : ProcessQueueTick(ok)
    \/ \E i, a \in BOOLEAN : ProcessQueueClaim(i, a)
    \/ \E t \in Tasks, db \in {"ok", "transient", "error"} : ExecuteDownloadStart(t, db)
    \/ \E t \in Tasks, ok \in BOOLEAN : DownloadSpawn(t, ok)
    \/ \E t \in Tasks, p \in ProgressTicks : DownloadProgress(t, p)
    \/ \E t \in Tasks, o \in Outcomes, s \in FileSizes : DownloadExit(t, o, s)
    \/ \E t \in Tasks, ok \in BOOLEAN : DownloadReturn(t, ok)
    \/ \E t \in Tasks, ok \in BOOLEAN : ExecuteDownloadFinally(t, ok)
    \/ \E t \in Tasks, ok \in BOOLEAN : DeleteTask(t, ok)
    \/ \E old, fails, pfails \in SUBSET Tasks : CleanupOldTasks(old, fails, pfails)

\* the download worker with task deletion and the cleanup sweep
SpecFiles == InitNoFaults /\ [][NextFiles]_vars

\* the download worker and the cleanup sweep
NextSweep ==
    \/ \E t \in Tasks : CreateDownload(t)
    \/ \E ok \in BOOLEAN : ProcessQueueTick(ok)
    \/ \E i, a \in BOOLEAN : ProcessQueueClaim(i, a)
    \/ \E t \in Tasks, db \in {"ok", "transient", "error"} : ExecuteDownloadStart(t, db)
    \/ \E t \in Tasks, ok \in BOOLEAN : DownloadSpawn(t, ok)
    \/ \E t \in Tasks, p \in ProgressTicks : DownloadProgress(t, p)
    \/ \E t \in Tasks, o \in Outcomes, s \in FileSizes : DownloadExit(t, o, s)
    \/ \E t \in Tasks, ok \in BOOLEAN : DownloadReturn(t, ok)
    \/ \E t \in Tasks, ok \in BOOLEAN : ExecuteDownloadFinally(t, ok)
    \/ \E old, fails, pfails \in SUBSET Tasks : CleanupOldTasks(old, fails, pfails)

SpecSweep == InitWithFaults(MaxFaults) /\ [][NextSweep]_vars

\* the JobQueue object driven through its public methods
SpecJQ == Init /\ [][NextJQ]_vars

\* ------------------------------------------------------------------ claims
\* every item waiting in the priority queues, with its tier
QueuedItems ==
    UNION {{<<p, priority_queues[p][i]>> : i \in DOMAIN priority_queues[p]} : p \in Priorities}

QueuedJobs == {pi[2].job : pi \in QueuedItems}

\* the rows that exist
Rows == {t \in Tasks : download_tasks[t] # NoRow}

\* C1: at every instant the active set holds at most MAX_CONCURRENT_DOWNLOADS
\* task ids.
C1_ActiveBound == Cardinality(active_downloads) <= MAX_CONCURRENT_DOWNLOADS

\* C2: every change of a task's persisted status is a legal transition of the
\* task state machine (pending to downloading, downloading to processing,
\* processing to completed, a non-terminal status to cancelled, a failing attempt
\* to pending or to failed); no other status write takes effect.
C2_LegalTransitions ==
    [][LET legal == {<<"none", "pending">>, <<"pending", "downloading">>,
                     <<"downloading", "processing">>, <<"processing", "completed">>}
                    \cup ({"pending", "downloading", "processing"} \X {"cancelled"})
                    \cup ({"downloading", "processing"} \X {"pending", "failed"})
       IN  \A t \in Tasks :
              download_tasks'[t].status # download_tasks[t].status =>
                 <<download_tasks[t].status, download_tasks'[t].status>> \in legal]_vars

\* C3: once a task's status is cancelled or failed, no later write changes it.
C3_TerminalWins ==
    [][\A t \in Tasks :
          download_tasks[t].status \in {"cancelled", "failed"} =>
             download_tasks'[t].status = download_tasks[t].status]_vars

\* C4: a task cancelled while it was still pending (its job was never handed
\* out) has no job waiting in the queue.
C4_CancelledPendingNotQueued ==
    \A t \in Tasks :
       (download_tasks[t].status = "cancelled" /\ exec_count[t] = 0) => t \notin QueuedJobs

\* C5: a task's status changes from pending to downloading only while its id is
\* in the active set.
C5_DownloadingOnlyIfActive ==
    [][\A t \in Tasks :
          (download_tasks[t].status = "pending" /\ download_tasks'[t].status = "downloading")
             => t \in active_downloads]_vars

\* C6: every completed task has a non-null file path and a file size greater
\* than 0.
C6_CompletedHasFile ==
    \A t \in Rows :
       download_tasks[t].status = "completed" =>
          download_tasks[t].file_path # NoPath /\ download_tasks[t].file_size > 0

\* C7: for every task, progress is 100 exactly when its status is completed.
C7_HundredIffCompleted ==
    \A t \in Rows :
       download_tasks[t].progress = 100 <=> download_tasks[t].status = "completed"

\* C9: once the worker is done with an attempt that timed out, the job has been
\* re-enqueued with its retry count increased, and the task is failed only if no
\* retry was left.
C9_TimeoutRetried ==
    \A t \in Rows :
       (download_tasks[t].error_message = "timeout" /\ pc[t] = "none") =>
          /\ job[t].retry_count >= 1
          /\ download_tasks[t].status = "failed" => job[t].retry_count = job[t].max_retries

\* C8: whenever dequeue hands out a job, the item it removed was waiting in the
\* highest non-empty tier and was the earliest-put item of that tier (a retry
\* counts as a new put).
C8_DequeueOrder ==
    [][\A j \in Jobs : exec_count'[j] > exec_count[j] =>
          \E pi \in QueuedItems :
             /\ pi[2].job = j
             /\ priority_queues' = Renumber([p \in Priorities |->
                       SelectSeq(priority_queues[p], LAMBDA e : e # pi[2])], pi[2])
             /\ \A other \in QueuedItems :
                   /\ other[1] <= pi[1]
                   /\ (other[1] = pi[1] => pi[2].seq <= other[2].seq)]_vars

\* a job was handed out for the first time while a retried job, put back behind
\* it in the same tier, was still waiting
C8_Witness ==
    \E j, k \in Jobs :
       /\ j # k
       /\ job[j].status = "running" /\ exec_count[j] = 1
       /\ job[k].retry_count > 0 /\ k \in QueuedJobs
       /\ job[k].priority = job[j].priority

\* C10: the retry counter of a job never exceeds its max_retries and a job is
\* handed out for execution at most max_retries + 1 times.
C10_AttemptsBounded ==
    \A j \in Jobs :
       /\ job[j].retry_count <= job[j].max_retries
       /\ exec_count[j] <= job[j].max_retries + 1

\* a job that used all its retries: executed max_retries + 1 times and failed
C10_Witness ==
    \E j \in Jobs :
       /\ job[j].max_retries >= 1
       /\ job[j].retry_count = job[j].max_retries
       /\ exec_count[j] = job[j].max_retries + 1
       /\ j \in failed_jobs

\* C11: a job that failed with no retry left (it is in failed_jobs with its retry
\* count at max_retries) has a task whose persisted status is failed.
C11_ExhaustedIsFailed ==
    \A t \in Rows :
       (t \in failed_jobs /\ job[t].retry_count = job[t].max_retries /\ pc[t] = "none") =>
          download_tasks[t].status = "failed"

\* the requests whose check ended with result res
RLWith(res) == {r \in Requests : rl_result[r] = res}

\* C12: when one client has sent RATE_LIMIT_PER_MINUTE + 1 requests within one
\* window and the store answered every command, RATE_LIMIT_PER_MINUTE of them
\* were admitted and exactly one was rejected.
C12_OneRejection ==
    ((\A r \in Requests : rl_pc[r] = "done" /\ ~rl_fault[r]) /\ ~rl_rolled) =>
        /\ Cardinality(RLWith("admitted")) = RATE_LIMIT_PER_MINUTE
        /\ Cardinality(RLWith("rejected")) = 1

\* C13: a request whose rate-limit check met a store error is admitted; no
\* request is rejected or failed because of the store error.
C13_FailOpen ==
    \A r \in Requests : (rl_fault[r] /\ rl_pc[r] = "done") => rl_result[r] = "admitted"

\* C14: a cancel request on a task whose status is already completed, failed or
\* cancelled leaves the status unchanged and is not answered with an error.
C14_TerminalCancelIsNoop ==
    [][\A t \in Tasks :
          (/\ download_tasks[t].status \in {"completed", "failed", "cancelled"}
           /\ cancel_pc[t] = "idle"
           /\ cancel_pc'[t] # "idle")
          => (/\ cancel_pc'[t] # "rejected"
              /\ download_tasks'[t] = download_tasks[t])]_vars

\* C15: when a cancel is reported as done, the child process of the task has
\* exited.
C15_ChildExitedWhenCancelDone ==
    [][\A t \in Tasks :
          (cancel_pc[t] = "wait" /\ cancel_pc'[t] = "idle") => proc'[t] = "none"]_vars

\* C16: once a task has ended cancelled or failed (its row says so, its
\* download coroutine has returned, its child is gone and no cancel request is
\* in flight), no partial output file of the task is left in DOWNLOAD_DIR.
C16_NoPartialFileLeft ==
    \A t \in Rows :
       (/\ download_tasks[t].status \in {"cancelled", "failed"}
        /\ pc[t] = "none" /\ cleanup[t] = 0
        /\ proc[t] = "none"
        /\ cancel_pc[t] # "wait")
       => download_dir[t] # "partial"

\* C17: the event ring of a task never holds more than 100 entries, and it is
\* always the most recent entries of what was recorded: once more than 100
\* events were recorded, the oldest are gone and the 100 newest are kept.
C17_RingKeepsNewest ==
    /\ Len(ev_ring) <= EVENT_LIMIT
    /\ Len(ev_ring) = (IF Len(ev_log) <= EVENT_LIMIT THEN Len(ev_log) ELSE EVENT_LIMIT)
    /\ \A i \in 1..Len(ev_ring) : ev_ring[i] = ev_log[Len(ev_log) - Len(ev_ring) + i]

\* more than 100 events were recorded and the first one has been dropped
C17_Witness ==
    /\ Len(ev_log) > EVENT_LIMIT
    /\ Len(ev_ring) = EVENT_LIMIT
    /\ ev_ring[1] # ev_log[1]
    /\ ev_pc = "idle"

\* C18: a task id without a row has no file in DOWNLOAD_DIR.  Rows disappear
\* only through delete_task and the cleanup sweep, and a task that never had a
\* row never had a file, so the statement holds at every instant exactly when
\* it holds after each deletion and each sweep.
C18_NoOrphanFile ==
    \A t \in Tasks : download_tasks[t] = NoRow => download_dir[t] = "empty"

\* path lies inside directory dir: it is dir or one of its descendants
Inside(path, dir) ==
    /\ Len(dir) <= Len(path)
    /\ SubSeq(path, 1, Len(dir)) = dir

\* C19: a file the download endpoint serves has a resolved path inside
\* DOWNLOAD_DIR, and a request for a row whose resolved path is not inside
\* DOWNLOAD_DIR is not served.
C19_ServedInsideDownloadDir ==
    sv_result = "served" => Inside(sv_row.file_path, sv_dir)

\* all download slots are taken by other tasks
SlotsBusy(t) ==
    /\ Cardinality(active_downloads) >= MAX_CONCURRENT_DOWNLOADS
    /\ t \notin active_downloads

\* C20: a task that is pending while every slot is taken by another task is
\* claimed by the scheduler at some later time, and its status becomes
\* downloading.
C20_PendingEventuallyDownloading ==
    \A t \in Tasks :
       (download_tasks[t].status = "pending" /\ SlotsBusy(t))
          ~> (download_tasks[t].status = "downloading")

\* C21: every task that was accepted (it has a row that is pending or
\* downloading) reaches a terminal status at some later time, whatever fails
\* between the dequeue of its job and its finalisation.
C21_AcceptedEventuallyTerminal ==
    \A t \in Tasks :
       (download_tasks[t].status \in {"pending", "downloading"})
          ~> (download_tasks[t].status \in {"completed", "failed", "cancelled"})

\* the place of task id c in the order of arrival (0: not queued)
Arrival(c) ==
    IF \E i \in 1..Len(conv_enq) : conv_enq[i] = c
    THEN CHOOSE i \in 1..Len(conv_enq) : conv_enq[i] = c
    ELSE 0

\* C22: in conversion:queue every entry that was never retried has score
\* -priority, and the entry dequeue pops next has the lowest score and, among
\* the entries of that score, is the one that was enqueued first.
C22_PopLowestScoreThenOldest ==
    /\ \A x \in conv_queue : x.entry.retry_count = 0 => x.score = 0 - x.entry.priority
    /\ conv_queue # {} =>
          LET x == ZFirst(conv_queue)
          IN  \A y \in conv_queue :
                 \/ x.score < y.score
                 \/ /\ x.score = y.score
                    /\ Arrival(x.entry.task_id) <= Arrival(y.entry.task_id)

\* C23: a retried job waits behind the fresh jobs of its priority: in no tier
\* does a job that has been retried stand ahead of a job that arrived after it
\* and was never retried, so the later arrival is dequeued first.
C23_RetriedBehindFresh ==
    \A p \in Priorities :
       \A i, k \in 1..Len(priority_queues[p]) :
          (i < k /\ job[priority_queues[p][i].job].retry_count > 0)
             => job[priority_queues[p][k].job].retry_count > 0

\* C24: a permanent failure ends the job: when the scheduler takes a waiting
\* job whose task row does not exist ("Task not found", an integrity failure),
\* the job becomes failed and is not put back into the queue, whatever its
\* remaining attempts.
C24_PermanentNotRequeued ==
    [][\A t \in Tasks :
          (/\ download_tasks[t] = NoRow
           /\ job[t].status \in {"pending", "retrying"}
           /\ job'[t] # job[t])
          => (job'[t].status = "failed" /\ t \notin QueuedJobs')]_vars

\* C25: the breaker goes from closed to open only on a failure that is at
\* least the fifth in a row, with no success recorded between them.
C25_OpensOnlyAfterConsecutiveFailures ==
    [][(cb_state = "closed" /\ cb_state' = "open") => cb_streak' >= FAILURE_THRESHOLD]_vars

\* C26: a failure recorded while the breaker is half-open returns it to open
\* with a new recovery window, and a success recorded while it is half-open
\* returns it to closed.
C26_HalfOpenOutcome ==
    [][/\ (cb_state = "half_open" /\ cb_streak' = cb_streak + 1)
            => (cb_state' = "open" /\ ~cb_elapsed')
       /\ (cb_state = "half_open" /\ cb_inflight' < cb_inflight /\ cb_streak' = 0)
            => cb_state' = "closed"]_vars

\* C27: while the breaker is half-open at most one request, the probe, has
\* been let through and has not had its outcome recorded.
C27_OneProbe ==
    cb_state = "half_open" => cb_probes <= 1

\* C28: whenever no rate-limit check is between two of its store commands, a
\* counter that exists has an expiry, so that it is dropped when the window
\* has rolled.
C28_CounterHasTTL ==
    ((\A r \in Requests : rl_pc[r] \in {"new", "done"}) /\ rl_count > 0) => rl_ttl

\* C29: within one window, whatever the interleaving of one client's requests,
\* at most RATE_LIMIT_PER_MINUTE of the requests whose store commands were all
\* answered are admitted.
C29_AtMostLimitAdmitted ==
    ~rl_rolled =>
        Cardinality({r \in RLWith("admitted") : ~rl_fault[r]}) <= RATE_LIMIT_PER_MINUTE

\* C30: the events stored for one task are in the order of their timestamps:
\* no stored event has a timestamp earlier than an event stored before it, also
\* when several coroutines record events of the task at the same time.
C30_EventsInTimestampOrder ==
    \A i, k \in 1..Len(ts_events) : i < k => ts_events[i] <= ts_events[k]

\* the 10 % steps of a download: 0, 10, ..., 100
ProgressSteps == {p \in 0..100 : p % 10 = 0}

\* C31: however many ticks the subprocess produces, a task has at most one
\* progress event per 10 % step.
C31_ProgressEventsBounded ==
    up_events <= Cardinality(ProgressSteps)

\* the terminal values of a task's status
Terminal == {"completed", "failed", "cancelled"}

\* C32: once a task with a terminal status in the task store is no longer
\* worked on, its progress snapshot shows the same terminal status with a
\* completion timestamp, and exactly one terminal event was recorded for it.
C32_FinalisedOnce ==
    \A t \in Tasks :
       (/\ download_tasks[t] # NoRow
        /\ download_tasks[t].status \in Terminal
        /\ Quiet(t)
        /\ t \notin QueuedJobs)
          => /\ progress_data[t].status = download_tasks[t].status
             /\ progress_data[t].completed_at
             /\ terminal_events[t] = 1

\* C33: when the cleanup sweep deletes the row of a task, the file the row
\* named is no longer in the download directory and the progress snapshot of
\* the task has been deleted.
C33_RowDeletedLast ==
    [][\A t \in Tasks :
          (download_tasks[t] # NoRow /\ download_tasks'[t] = NoRow)
             => /\ (download_tasks[t].file_path # NoPath => download_dir'[t] # "output")
                /\ progress_data'[t] = NoProgress]_vars

\* C34: a store operation is called at most 3 times, the delays before the
\* second and the third call are 0.5 s and 1 s, an operation that failed every
\* time ends with the error raised to the caller, and no call follows an
\* integrity error.
C34_ThreeAttemptsThenRaise ==
    /\ Len(rt_errors) + (IF rt_result = "returned" THEN 1 ELSE 0) <= 3
    /\ \A i \in 1..Len(rt_slept) : i <= 2 /\ rt_slept[i] = <<5, 10>>[i]
    /\ (rt_result \notin {"running", "returned"}) => rt_result = "raised"
    /\ \A i \in 1..Len(rt_errors) : rt_errors[i] = "IntegrityError" => i = Len(rt_errors)

\* C35: the fallback cache never holds more than its maximum number of
\* entries, and when a new key is stored in a full cache the entry that goes
\* is the least recently used one, so that an entry read more recently than
\* another is still served.
C35_EvictsLeastRecentlyUsed ==
    [][/\ Len(fc_expiry') <= FallbackMaxItems
       /\ \A gone \in DictKeys(fc_expiry) \ DictKeys(fc_expiry') :
             (DictKeys(fc_expiry') \ DictKeys(fc_expiry) # {}) => gone = fc_recent[1]]_vars

\* C36: a running worker that holds a job and whose heartbeat is older than
\* 30 s is eventually restarted by the supervisor, with the child process of
\* the job cancelled and the job no longer held by the dead worker.
C36_DeadWorkerRecovered ==
    (ws_task = "running" /\ ws_heartbeat = "stale" /\ ws_child = "running" /\ ws_restarts = 0)
       ~> (ws_restarts > 0 /\ ws_child = "none" /\ ws_job = "none")

\* the number of places a job is in among the priority queues, active_jobs,
\* completed_jobs and failed_jobs
Places(j) ==
    Cardinality({pi \in QueuedItems : pi[2].job = j})
      + (IF j \in active_jobs THEN 1 ELSE 0)
      + (IF j \in completed_jobs THEN 1 ELSE 0)
      + (IF j \in failed_jobs THEN 1 ELSE 0)

\* C37: every job that was enqueued and not cancelled is in exactly one place
\* among the priority queues, active_jobs, completed_jobs and failed_jobs; a
\* job waiting in a queue for its retry is not in active_jobs.
C37_JobInOnePlace ==
    \A j \in Jobs : job[j].status \notin {"none", "cancelled"} => Places(j) = 1

\* C38: a job enters completed_jobs only when the persisted status of its
\* task is completed.
C38_CompletedJobHasCompletedTask ==
    [][\A t \in Tasks :
          (t \notin completed_jobs /\ t \in completed_jobs')
             => (download_tasks'[t] # NoRow /\ download_tasks'[t].status = "completed")]_vars


\* C39: a conversion task whose cancel request has returned, and whose worker
\* coroutine has ended, has its entry in conversion:cancelled and in neither
\* conversion:queue nor conversion:active, whatever else is active
C39_CancelledNeverRequeued ==
    \A c \in DOMAIN conversion_tasks :
        (conversion_tasks[c] = "cancelled" /\ conv_pc[c] = "none" /\ c \notin conv_cancelling)
            => /\ ZFind(conv_queue, c) = {}
               /\ ZFind(conv_active, c) = {}
               /\ ZFind(conv_cancelled, c) # {}


\* C40: at any time at most one caller holds the lock of the resource: of the
\* callers that were granted the lock, have not released it and whose grant
\* has not expired, there is at most one
C40_LockMutuallyExclusive == Cardinality({c \in Callers : Holds(c)}) <= 1

====
